---- MODULE Spec2Model ----
(***************************************************************************)
(* The storage core of the distributed database engine: the LSM tree       *)
(* (crates/storage/src/lsm.rs) over its write-ahead log (wal.rs), its      *)
(* memtables (memtable.rs) and its SSTable builder (sstable.rs).           *)
(*                                                                         *)
(* Spec     the engine used by concurrent callers, with crash and reopen.  *)
(* SpecWal  the write-ahead log alone: append, damage on disk, recover.    *)
(* SpecSst  one SSTable file: build, write, open, get.                     *)
(* SpecCache  one BlockCache under put and get.                            *)
(* SpecMem  one MemTable under put and delete.                             *)
(* SpecTxn  the TransactionManager (crates/transaction/src/manager.rs).    *)
(* SpecRaft  one RaftNode (crates/consensus/src/raft.rs) under propose.    *)
(***************************************************************************)
EXTENDS Integers, Sequences, FiniteSets, TLC

(***************************************************************************)
(* Bounds of the model.                                                    *)
(***************************************************************************)
NumKeys == 2
NumVals == 1
NumProcs == 2
MaxMutations == 2
MaxFlushes == 2
MaxGets == 1
MaxCrashes == 1
MaxWalLen == 3
NumCacheKeys == 3
CacheCapacity == 6
MaxCacheOps == 5
NumMemSeqs == 2
MaxMemOps == 4
NumTxnIds == 3
MaxTxnOps == 5
NumNodes == 3
NumRaftData == 4
MaxRaftOps == 3

Keys == {<<k>> : k \in 1..NumKeys}
Values == {<<v>> : v \in 1..NumVals}
Procs == 1..NumProcs
\* Cache keys are Strings of one byte; cache values have one byte, two bytes,
\* or one byte more than the whole capacity.
CacheKeys == {<<k>> : k \in 1..NumCacheKeys}
CacheValues == {<<1>>, <<2, 2>>, [i \in 1..CacheCapacity |-> 3]}

(***************************************************************************)
(* Option<T> and Result<T>.                                                *)
(***************************************************************************)
None == [some |-> FALSE, v |-> <<>>]
Some(x) == [some |-> TRUE, v |-> x]

(***************************************************************************)
(* Program constants.                                                      *)
(***************************************************************************)
\* sstable.rs: const BLOCK_SIZE / FOOTER_SIZE
BLOCK_SIZE == 4096
FOOTER_SIZE == 48
\* lib.rs: StorageConfig::default()
max_levels == 7
l0_compaction_trigger == 4
compression == "LZ4"
\* lsm.rs:92: memtable_size_mb * 1024 * 1024
MemtableThreshold(memtable_size_mb) == memtable_size_mb * 1024 * 1024

(***************************************************************************)
(* KVPair (lib.rs).  The timestamp field is written by put/delete and read *)
(* by no operation; it is left out of the record.                          *)
(***************************************************************************)
KVPairNew(key, value, sequence) ==
    [key |-> key, value |-> Some(value), sequence |-> sequence]

KVPairDelete(key, sequence) ==
    [key |-> key, value |-> None, sequence |-> sequence]

(***************************************************************************)
(* MemTable (memtable.rs): a BTreeMap from key to entry, and a byte count. *)
(* The map is a function whose domain is the set of keys present.          *)
(***************************************************************************)
Insert(map, key, entry) ==
    [x \in (DOMAIN map) \cup {key} |-> IF x = key THEN entry ELSE map[x]]

MemTableNew == [data |-> <<>>, size |-> 0]

\* A faulty put, for comparison: an entry with a higher sequence number is
\* kept.
MemTablePutIfNewer(m, key, value, sequence) ==
    IF key \in DOMAIN m.data /\ m.data[key].sequence > sequence
    THEN m
    ELSE [data |-> Insert(m.data, key, [value |-> Some(value), sequence |-> sequence]),
          size |-> m.size
                   - (IF key \in DOMAIN m.data
                      THEN Len(key)
                           + (IF m.data[key].value.some THEN Len(m.data[key].value.v) ELSE 0)
                           + 16
                      ELSE 0)
                   + Len(key) + Len(value) + 16]

\* A faulty put, for comparison: the size of the entry replaced is not
\* subtracted.
MemTablePutAdds(m, key, value, sequence) ==
    [data |-> Insert(m.data, key, [value |-> Some(value), sequence |-> sequence]),
     size |-> m.size + Len(key) + Len(value) + 8 + 8]

MemTablePut(m, key, value, sequence) ==
    LET old_size == IF key \in DOMAIN m.data
                    THEN Len(key)
                         + (IF m.data[key].value.some THEN Len(m.data[key].value.v) ELSE 0)
                         + 8 + 8
                    ELSE 0
        new_size == Len(key) + Len(value) + 8 + 8
        entry == [value |-> Some(value), sequence |-> sequence]
    IN  [data |-> Insert(m.data, key, entry),
         size |-> m.size - old_size + new_size]

MemTableDelete(m, key, sequence) ==
    LET old_size == IF key \in DOMAIN m.data
                    THEN Len(key)
                         + (IF m.data[key].value.some THEN Len(m.data[key].value.v) ELSE 0)
                         + 8 + 8
                    ELSE 0
        new_size == Len(key) + 8 + 8
        entry == [value |-> None, sequence |-> sequence]
    IN  [data |-> Insert(m.data, key, entry),
         size |-> m.size - old_size + new_size]

\* Option<Option<Vec<u8>>>: None = absent, Some(None) = tombstone.
MemTableGet(m, key) ==
    IF key \in DOMAIN m.data THEN Some(m.data[key].value) ELSE None

MemTableSize(m) == m.size

MemTableIsEmpty(m) == DOMAIN m.data = {}

(***************************************************************************)
(* WriteAheadLog (wal.rs).  The log file is the sequence of its            *)
(* length-prefixed records; a record is a WALEntry {crc, length, data},    *)
(* decodes tells whether its bytes still parse as one, and overrun         *)
(* whether its 4-byte length prefix declares more bytes than the file      *)
(* holds after it (a prefix damaged upward, or a last record cut short).   *)
(* Serialize stands for serde_json::to_vec of a KVPair (an injective byte  *)
(* encoding: key and value bytes are >= 1, 0 separates the fields) and Crc *)
(* for crc32fast::hash of those bytes (a positional checksum, kept within  *)
(* the model checker's integers by the modulus 65521).                     *)
(***************************************************************************)
Serialize(kv) ==
    kv.key \o <<0>> \o (IF kv.value.some THEN <<1>> \o kv.value.v ELSE <<0>>)
           \o <<0, kv.sequence>>

RECURSIVE CrcFrom(_, _)
CrcFrom(bytes, h) ==
    IF bytes = <<>> THEN h
    ELSE CrcFrom(Tail(bytes), (h * 31 + Head(bytes) + 1) % 65521)

Crc(bytes) == CrcFrom(bytes, 0)

WALEntry(kv_pair) ==
    LET data == Serialize(kv_pair)
    IN  [crc |-> Crc(data), length |-> Len(data), data |-> kv_pair, decodes |-> TRUE,
         overrun |-> FALSE]

\* A faulty append, for comparison: the record never reaches the file.
WalAppendLost(file, kv_pair) == file

\* append: the record is written after the records already in the file.
WalAppend(file, kv_pair) == Append(file, WALEntry(kv_pair))

\* A faulty recover loop, for comparison: a checksum mismatch ends the scan
\* (break) instead of skipping the record (continue).
RECURSIVE RecoverStopAtMismatch(_, _, _)
RecoverStopAtMismatch(file, i, entries) ==
    IF i > Len(file) THEN entries
    ELSE IF file[i].overrun THEN entries
    ELSE IF ~file[i].decodes THEN RecoverStopAtMismatch(file, i + 1, entries)
    ELSE IF file[i].crc # Crc(Serialize(file[i].data)) THEN entries
    ELSE RecoverStopAtMismatch(file, i + 1, Append(entries, file[i].data))

\* A faulty recover loop, for comparison: a record whose length prefix runs
\* past the end of the file is skipped (continue) instead of ending the scan.
RECURSIVE RecoverSkipsOverrun(_, _, _)
RecoverSkipsOverrun(file, i, entries) ==
    IF i > Len(file) THEN entries
    ELSE IF file[i].overrun \/ ~file[i].decodes
            \/ file[i].crc # Crc(Serialize(file[i].data))
    THEN RecoverSkipsOverrun(file, i + 1, entries)
    ELSE RecoverSkipsOverrun(file, i + 1, Append(entries, file[i].data))

\* recover's loop: the length prefix of record i is read, and the scan ends
\* (break) when it declares more bytes than remain; otherwise the record is
\* read and decoded, its checksum recomputed over the re-serialized payload;
\* a record that does not decode or whose checksum differs is skipped
\* (continue), any other is pushed.
RECURSIVE RecoverFrom(_, _, _)
RecoverFrom(file, i, entries) ==
    IF i > Len(file) THEN entries
    ELSE LET entry == file[i]
             expected_crc == Crc(Serialize(entry.data))
         IN  IF entry.overrun THEN entries
             ELSE IF ~entry.decodes \/ entry.crc # expected_crc
             THEN RecoverFrom(file, i + 1, entries)
             ELSE RecoverFrom(file, i + 1, Append(entries, entry.data))

WalRecover(file) == [ok |-> TRUE, entries |-> RecoverFrom(file, 1, <<>>)]

\* truncate (wal.rs:136-150): set_len(0).  No operation of the engine calls
\* it.
WalTruncate(file) == <<>>


(***************************************************************************)
(* SSTableBuilder / SSTable (sstable.rs).                                  *)
(*                                                                         *)
(* A builder is {current_block, blocks_written, index_entries,             *)
(* current_offset, num_entries}; file_len is the number of bytes the       *)
(* builder has written to its file.                                        *)
(***************************************************************************)
RECURSIVE KeyLess(_, _)
KeyLess(a, b) ==
    IF b = <<>> THEN FALSE
    ELSE IF a = <<>> THEN TRUE
    ELSE IF Head(a) # Head(b) THEN Head(a) < Head(b)
    ELSE KeyLess(Tail(a), Tail(b))

KeyLeq(a, b) == a = b \/ KeyLess(a, b)

FirstKey(map) == CHOOSE k \in DOMAIN map : \A j \in DOMAIN map : KeyLeq(k, j)

RECURSIVE Digits(_)
Digits(n) == IF n < 10 THEN 1 ELSE 1 + Digits(n \div 10)

\* serde_json::to_vec of the block, a BTreeMap<Vec<u8>, Option<Vec<u8>>>: a
\* byte-vector key is no JSON object key, so every non-empty block fails to
\* serialize ("key must be a string"); the empty block is "{}".
BlockJson(block) ==
    IF DOMAIN block = {} THEN [ok |-> TRUE, len |-> 2] ELSE [ok |-> FALSE, len |-> 0]

\* compress: None copies; LZ4 prepends the 4-byte size to a literal run;
\* Zstd adds its frame header.  Only the length is modelled.
CompressedLen(n, kind) ==
    IF kind = "None" THEN n ELSE IF kind = "LZ4" THEN n + 5 ELSE n + 9

\* serde_json::to_vec of Vec<IndexEntry>: "[" entries "]".
RECURSIVE IndexJsonLen(_)
IndexJsonLen(index_entries) ==
    IF index_entries = <<>> THEN 2
    ELSE 30 + 2 * Len(Head(index_entries).key) + Digits(Head(index_entries).offset)
            + Digits(Head(index_entries).size) + IndexJsonLen(Tail(index_entries))

\* serde_json::to_vec of the SSTableFooter: the seven field names, the
\* punctuation and the three constant zeros take 117 bytes.
FooterJsonLen(index_offset, index_size, kind, num_entries) ==
    117 + Digits(index_offset) + Digits(index_size) + Len(kind) + Digits(num_entries)

BuilderNew ==
    [current_block |-> <<>>, blocks_written |-> 0, index_entries |-> <<>>,
     current_offset |-> 0, num_entries |-> 0, file_len |-> 0]

\* estimate_block_size: to_vec(...).unwrap_or_default().len()
EstimateBlockSize(b) ==
    IF BlockJson(b.current_block).ok THEN BlockJson(b.current_block).len ELSE 0

\* flush_current_block: [ok, b].  The block is never written to the file:
\* only current_offset moves.
FlushCurrentBlock(b) ==
    IF DOMAIN b.current_block = {} THEN [ok |-> TRUE, b |-> b]
    ELSE LET pushed == Append(b.index_entries,
                              [key |-> FirstKey(b.current_block),
                               offset |-> b.current_offset, size |-> 0])
             block_data == BlockJson(b.current_block)
             size == CompressedLen(block_data.len, compression)
         IN  IF ~block_data.ok
             THEN [ok |-> FALSE, b |-> [b EXCEPT !.index_entries = pushed]]
             ELSE [ok |-> TRUE,
                   b |-> [b EXCEPT !.index_entries =
                                       [pushed EXCEPT ![Len(pushed)].size = size],
                                   !.current_offset = b.current_offset + size,
                                   !.blocks_written = b.blocks_written + 1,
                                   !.current_block = <<>>]]

\* add: [ok, b]
BuilderAdd(b, key, value) ==
    LET b1 == [b EXCEPT !.current_block = Insert(b.current_block, key, value),
                        !.num_entries = b.num_entries + 1]
    IN  IF EstimateBlockSize(b1) >= BLOCK_SIZE THEN FlushCurrentBlock(b1)
        ELSE [ok |-> TRUE, b |-> b1]

\* SSTable::open of a file: [ok, err, index].  A file is described by its
\* length, the index_len index bytes it holds at index_at, and its final 48
\* bytes: footer_len of them are the footer's JSON text and the rest is zero
\* padding.  serde_json::from_slice refuses trailing bytes, so the footer
\* decodes only when its text fills the 48 bytes; the index decodes only
\* when the footer's index_offset/index_size are where the index bytes are.
\* "Index" stands for the Compression or Corruption error of decoding bytes
\* that are not the index.

\* A faulty open, for comparison: neither the length of the file nor its
\* footer is checked.
SSTableOpenNoFooterCheck(file) ==
    IF file.footer.index_offset + file.footer.index_size > file.file_len
    THEN [ok |-> FALSE, err |-> "Io", index |-> <<>>]
    ELSE [ok |-> TRUE, err |-> "none", index |-> file.index_entries]

SSTableOpen(file) ==
    IF file.file_len < FOOTER_SIZE
    THEN [ok |-> FALSE, err |-> "Corruption", index |-> <<>>]
    ELSE IF file.footer_len # FOOTER_SIZE
    THEN [ok |-> FALSE, err |-> "Corruption", index |-> <<>>]
    ELSE IF file.footer.index_offset + file.footer.index_size > file.file_len
    THEN [ok |-> FALSE, err |-> "Io", index |-> <<>>]
    ELSE IF file.footer.index_offset # file.index_at
            \/ file.footer.index_size # file.index_len
    THEN [ok |-> FALSE, err |-> "Index", index |-> <<>>]
    ELSE [ok |-> TRUE, err |-> "none", index |-> file.index_entries]

\* The file a builder leaves when finish fails: len bytes, none of them a
\* footer.
FileWithoutFooter(len) ==
    [file_len |-> len, index_at |-> 0, index_len |-> len, index_entries |-> <<>>,
     footer_len |-> 0,
     footer |-> [index_offset |-> 0, index_size |-> 0, num_entries |-> 0]]

\* finish: [ok, sst, file_len, file]
BuilderFinish(b) ==
    LET fl == IF DOMAIN b.current_block # {} THEN FlushCurrentBlock(b)
              ELSE [ok |-> TRUE, b |-> b]
    IN  IF ~fl.ok
        THEN [ok |-> FALSE, sst |-> <<>>, file_len |-> b.file_len,
              file |-> FileWithoutFooter(b.file_len)]
        ELSE
        LET index_offset == fl.b.current_offset
            index_size == CompressedLen(IndexJsonLen(fl.b.index_entries), compression)
            footer_len == FooterJsonLen(index_offset, index_size, compression,
                                        fl.b.num_entries)
        IN  IF footer_len > FOOTER_SIZE
            THEN [ok |-> FALSE, sst |-> <<>>, file_len |-> b.file_len + index_size,
                  file |-> FileWithoutFooter(b.file_len + index_size)]
            ELSE LET file == [file_len |-> b.file_len + index_size + FOOTER_SIZE,
                              index_at |-> b.file_len,
                              index_len |-> index_size,
                              index_entries |-> fl.b.index_entries,
                              footer_len |-> footer_len,
                              footer |-> [index_offset |-> index_offset,
                                          index_size |-> index_size,
                                          num_entries |-> fl.b.num_entries]]
                     opened == SSTableOpen(file)
                 IN  [ok |-> opened.ok,
                      sst |-> [index |-> opened.index, file_len |-> file.file_len],
                      file_len |-> file.file_len,
                      file |-> file]

\* SSTable::get: [ok, r] with r an Option<Option<value>>; cache maps the
\* offsets of the blocks of this file that the block cache holds to the
\* cached bytes.  The decoded block is not searched: a cached block is
\* returned whole as the value, any other non-empty block reports Some(None).
SSTableGetWith(sst, key, cache) ==
    LET le == {i \in 1..Len(sst.index) : KeyLeq(sst.index[i].key, key)}
    IN  IF le = {} THEN [ok |-> TRUE, r |-> None]
        ELSE LET i == CHOOSE j \in le : \A l \in le : KeyLeq(sst.index[l].key, sst.index[j].key)
             IN  IF sst.index[i].offset \in DOMAIN cache
                 THEN [ok |-> TRUE, r |-> Some(Some(cache[sst.index[i].offset]))]
                 ELSE IF sst.index[i].offset + sst.index[i].size > sst.file_len
                 THEN [ok |-> FALSE, r |-> None]
                 ELSE IF sst.index[i].size > 0 THEN [ok |-> TRUE, r |-> Some(None)]
                 ELSE [ok |-> TRUE, r |-> None]

\* The engine's block cache is never filled (no caller of BlockCache::put),
\* so both of its lookups miss.
SSTableGet(sst, key) == SSTableGetWith(sst, key, <<>>)

(***************************************************************************)
(* BlockCache (cache.rs): LRUCache {data, capacity, current_size,          *)
(* access_order}; an entry is {value, size}.                               *)
(*                                                                         *)
(* current_size is a usize.  A subtraction below zero panics when the      *)
(* build checks overflow (debug profile) and wraps modulo 2^64 otherwise   *)
(* (release profile).  A wrapped value is written as its residue nearest   *)
(* to zero: -3 stands for 2^64 - 3; sums and differences of such residues  *)
(* are the wrapped sums and differences, and a negative residue is larger  *)
(* than every capacity.                                                    *)
(***************************************************************************)
BlockCacheNew(capacity) ==
    [data |-> <<>>, capacity |-> capacity, current_size |-> 0, access_order |-> <<>>]

\* HashMap::remove
Remove(map, key) ==
    IF DOMAIN map \ {key} = {} THEN <<>>
    ELSE [x \in (DOMAIN map) \ {key} |-> map[x]]

\* access_order.iter().position(..) and remove(pos): the first occurrence.
RemoveFirst(order, key) ==
    IF \E i \in 1..Len(order) : order[i] = key
    THEN LET pos == CHOOSE i \in 1..Len(order) :
                        order[i] = key /\ \A j \in 1..(i - 1) : order[j] # key
         IN  SubSeq(order, 1, pos - 1) \o SubSeq(order, pos + 1, Len(order))
    ELSE order

\* a > b on usize, a possibly wrapped.
UGreater(a, b) == a < 0 \/ a > b

\* a - b on usize leaves the range.
SubUnderflows(a, b) == a >= 0 /\ a < b

\* cache.rs:58 and :68: key.len() + entry.size is subtracted, where
\* entry.size already is key.len() + value.len().
RemovedCost(key, entry) == Len(key) + entry.size

\* put's eviction loop (cache.rs:65-74): [cache, panicked, evicted].
RECURSIVE CacheEvict(_, _, _, _)
CacheEvict(c, entry_size, checks, evicted) ==
    IF UGreater(c.current_size + entry_size, c.capacity) /\ c.access_order # <<>>
    THEN LET lru_key == Head(c.access_order)
         IN  IF lru_key \in DOMAIN c.data
             THEN LET sub == RemovedCost(lru_key, c.data[lru_key])
                      removed == [c EXCEPT !.data = Remove(c.data, lru_key)]
                  IN  IF checks /\ SubUnderflows(c.current_size, sub)
                      THEN [cache |-> removed, panicked |-> TRUE,
                            evicted |-> Append(evicted, lru_key)]
                      ELSE CacheEvict([removed EXCEPT !.current_size = @ - sub,
                                                      !.access_order = Tail(@)],
                                      entry_size, checks, Append(evicted, lru_key))
             ELSE CacheEvict([c EXCEPT !.access_order = Tail(@)],
                             entry_size, checks, evicted)
    ELSE [cache |-> c, panicked |-> FALSE, evicted |-> evicted]

\* put (cache.rs:52-85): [cache, panicked, evicted].  A panic leaves the
\* cache as the statements before it made it (the lock is not poisoned).
CachePut(c, key, value, checks) ==
    LET entry_size == Len(key) + Len(value)
        had == key \in DOMAIN c.data
        removed == [c EXCEPT !.data = Remove(c.data, key)]
    IN  IF had /\ checks /\ SubUnderflows(c.current_size, RemovedCost(key, c.data[key]))
        THEN [cache |-> removed, panicked |-> TRUE, evicted |-> <<>>]
        ELSE LET c1 == IF had
                       THEN [removed EXCEPT
                                !.current_size = @ - RemovedCost(key, c.data[key]),
                                !.access_order = RemoveFirst(@, key)]
                       ELSE c
                 ev == CacheEvict(c1, entry_size, checks, <<>>)
             IN  IF ev.panicked THEN ev
                 ELSE IF entry_size <= c.capacity
                 THEN [cache |-> [ev.cache EXCEPT
                                     !.data = Insert(ev.cache.data, key,
                                                     [value |-> value, size |-> entry_size]),
                                     !.access_order = Append(@, key),
                                     !.current_size = @ + entry_size],
                       panicked |-> FALSE, evicted |-> ev.evicted]
                 ELSE ev

\* get (cache.rs:34-50): [cache, out]
CacheGet(c, key) ==
    IF key \in DOMAIN c.data
    THEN [cache |-> [c EXCEPT !.access_order = Append(RemoveFirst(@, key), key)],
          out |-> Some(c.data[key].value)]
    ELSE [cache |-> c, out |-> None]

(***************************************************************************)
(* TransactionManager (transaction/src/manager.rs) over Transaction        *)
(* (mvcc.rs).  active_transactions is a function from the ids present to   *)
(* transactions.  A TransactionId is a Uuid::new_v4(): begin draws an id   *)
(* no transaction has yet.  start_timestamp is read by no operation and    *)
(* is left out of the record.                                              *)
(***************************************************************************)
TxnIds == 1..NumTxnIds

IsolationLevels == {"ReadUncommitted", "ReadCommitted", "RepeatableRead", "Serializable"}

TransactionNew(id, isolation_level) ==
    [id |-> id, isolation_level |-> isolation_level, status |-> "Active"]

IsActive(txn) == txn.status = "Active"

TxnBegin(map, id, isolation_level) ==
    [map |-> Insert(map, id, TransactionNew(id, isolation_level)),
     res |-> [ok |-> TRUE, err |-> "none", id |-> id]]

\* A faulty commit, for comparison: Ok is returned and the status is left
\* as it was.
TxnCommitKeepsStatus(map, id) ==
    IF id \in DOMAIN map /\ IsActive(map[id])
    THEN [map |-> map, res |-> [ok |-> TRUE, err |-> "none", id |-> id]]
    ELSE [map |-> map, res |-> [ok |-> FALSE, err |-> "NotFound", id |-> id]]

TxnCommit(map, id) ==
    IF id \in DOMAIN map
    THEN IF ~IsActive(map[id])
         THEN [map |-> map, res |-> [ok |-> FALSE, err |-> "NotFound", id |-> id]]
         ELSE [map |-> [map EXCEPT ![id].status = "Committed"],
               res |-> [ok |-> TRUE, err |-> "none", id |-> id]]
    ELSE [map |-> map, res |-> [ok |-> FALSE, err |-> "NotFound", id |-> id]]

TxnAbort(map, id) ==
    IF id \in DOMAIN map
    THEN [map |-> [map EXCEPT ![id].status = "Aborted"],
          res |-> [ok |-> TRUE, err |-> "none", id |-> id]]
    ELSE [map |-> map, res |-> [ok |-> FALSE, err |-> "NotFound", id |-> id]]

GetTransaction(map, id) == IF id \in DOMAIN map THEN Some(map[id]) ELSE None

(***************************************************************************)
(* RaftNode (consensus/src/raft.rs).  The log is the sequence of its       *)
(* entries; indices count from 0 as in the code.  next_index and           *)
(* match_index are maps no operation writes.                               *)
(***************************************************************************)
NodeIds == 1..NumNodes

RaftData == {[i \in 1..n |-> 1] : n \in 0..(NumRaftData - 1)}

\* RaftConfig: a node with no peer, one peer or two peers.
RaftConfigs ==
    {[node_id |-> n, peers |-> ps, election_timeout_ms |-> 150,
      heartbeat_interval_ms |-> 50] :
        n \in NodeIds,
        ps \in {<<>>} \cup {<<a>> : a \in NodeIds} \cup {<<a, b>> : a, b \in NodeIds}}

RaftNodeNew(cfg) ==
    [config |-> cfg, state |-> "Follower", current_term |-> 0, voted_for |-> None,
     log |-> <<>>, commit_index |-> 0, last_applied |-> 0,
     next_index |-> <<>>, match_index |-> <<>>]

IsLeader(node) == node.state = "Leader"

\* A faulty propose, for comparison: the entry is appended whatever the
\* node's state.
RaftProposeUnchecked(node, data) ==
    [node |-> [node EXCEPT !.log = Append(@, [term |-> node.current_term,
                                              index |-> Len(node.log),
                                              data |-> data])],
     res |-> [ok |-> TRUE, err |-> "none", index |-> Len(node.log)]]

RaftPropose(node, data) ==
    IF ~IsLeader(node)
    THEN [node |-> node, res |-> [ok |-> FALSE, err |-> "NotLeader", index |-> 0]]
    ELSE LET index == Len(node.log)
             entry == [term |-> node.current_term, index |-> index, data |-> data]
         IN  [node |-> [node EXCEPT !.log = Append(@, entry)],
              res |-> [ok |-> TRUE, err |-> "none", index |-> index]]

(***************************************************************************)
(* State.                                                                  *)
(*                                                                         *)
(* LSMTree (lsm.rs:18-36): sequence_number, active_memtable,               *)
(* immutable_memtables, levels; config.memtable_size_mb.  On disk: the WAL *)
(* file and the .sst files of data_dir (file number -> bytes written).     *)
(* up: an engine instance is open.  pc/call: each caller's position in its *)
(* current call and that call's locals.  ret: the call whose return led to *)
(* this state (NoCall when the last step was no return).  A flush's had    *)
(* tells whether the active memtable held entries when flush was called.   *)
(*                                                                         *)
(* History, read by the properties only: last[k] is the latest put/delete  *)
(* issued on k, racy[k] whether two mutations of k ever overlapped,        *)
(* maxDone the largest sequence number of a put/delete that has returned   *)
(* in this instance.                                                       *)
(*                                                                         *)
(* recovered / damaged belong to SpecWal: the last result of recover, and  *)
(* the positions of the records damaged on disk.                           *)
(*                                                                         *)
(* sstFile / sstRun / sstHandle / sstGot belong to SpecSst: one .sst file  *)
(* on disk, the run last given to a builder, the result of the last        *)
(* finish or open, and the result of the last get.                         *)
(*                                                                         *)
(* blockCache / cacheRet / recency / cacheOps / overflow_checks belong to  *)
(* SpecCache: the LRUCache, the last call with the cache as it was before  *)
(* it, the keys held in the order of their last put or get hit (history),  *)
(* the number of calls made, and whether the build checks integer          *)
(* overflow (debug profile) or wraps (release profile).                    *)
(*                                                                         *)
(* mem / memRet / memLast / memOps belong to SpecMem: one MemTable, the    *)
(* last call with the memtable as it was before it, the last insertion of  *)
(* every key (history), and the number of calls made.                      *)
(*                                                                         *)
(* txns / txnRet / txnOps belong to SpecTxn: the manager's                 *)
(* active_transactions map, the last call with the map as it was before    *)
(* it, and the number of calls made.                                       *)
(*                                                                         *)
(* raft / raftRet / raftOps belong to SpecRaft: one RaftNode, the last     *)
(* propose with the node as it was before it, and the number of calls.     *)
(***************************************************************************)
VARIABLES sequence_number, active_memtable, immutable_memtables, levels,
          memtable_size_mb, walFile, sstFiles, up, crashes,
          pc, call, ret, nops,
          last, racy, maxDone,
          recovered, damaged,
          sstFile, sstRun, sstHandle, sstGot,
          blockCache, cacheRet, recency, cacheOps, overflow_checks,
          mem, memRet, memLast, memOps,
          txns, txnRet, txnOps,
          raft, raftRet, raftOps

engine == <<sequence_number, active_memtable, immutable_memtables, levels>>
config == <<memtable_size_mb>>
disk == <<walFile, sstFiles>>
history == <<last, racy, maxDone>>
walOnly == <<recovered, damaged>>
sstOnly == <<sstFile, sstRun, sstHandle, sstGot>>
cacheOnly == <<blockCache, cacheRet, recency, cacheOps, overflow_checks>>
memOnly == <<mem, memRet, memLast, memOps>>
txnOnly == <<txns, txnRet, txnOps>>
raftOnly == <<raft, raftRet, raftOps>>
others == <<memOnly, txnOnly, raftOnly>>
parts == <<walOnly, sstOnly, cacheOnly, others>>
vars == <<sequence_number, active_memtable, immutable_memtables, levels,
          memtable_size_mb, walFile, sstFiles, up, crashes,
          pc, call, ret, nops, last, racy, maxDone,
          recovered, damaged,
          sstFile, sstRun, sstHandle, sstGot,
          blockCache, cacheRet, recency, cacheOps, overflow_checks,
          mem, memRet, memLast, memOps, txns, txnRet, txnOps,
          raft, raftRet, raftOps>>

NotRecovered == [done |-> FALSE, ok |-> TRUE, entries |-> <<>>]

NoCall ==
    [kind |-> "none", key |-> <<>>, value |-> None, seq |-> 0,
     old |-> MemTableNew, batch |-> <<>>, second |-> FALSE,
     res |-> "none", out |-> None, after |-> -1, had |-> FALSE]

NoLast == [kind |-> "none", value |-> None, seq |-> 0, status |-> "none", epoch |-> 0]

IsMutation(c) == c.kind \in {"put", "delete"}

\* A faulty fetch_add, for comparison: the counter does not move.
FetchAddStale(counter) == counter

\* AtomicU64::fetch_add(1): the new counter value (the old one is returned).
FetchAdd(counter) == counter + 1

(***************************************************************************)
(* flush_memtable_to_l0 (lsm.rs:193-229): [ok, seqno, files, lv].          *)
(* SSTableBuilder::new creates (truncates) the file before anything is     *)
(* added; the file keeps whatever finish wrote before it failed.           *)
(***************************************************************************)
RECURSIVE AddAll(_, _, _)
AddAll(b, data, keys) ==
    IF keys = {} THEN [ok |-> TRUE, b |-> b]
    ELSE LET key == CHOOSE k \in keys : \A j \in keys : KeyLeq(k, j)
             r == BuilderAdd(b, key, data[key].value)
         IN  IF ~r.ok THEN r ELSE AddAll(r.b, data, keys \ {key})

\* A faulty flush, for comparison: a table is put in level 1.
FlushMemtableToLevel1(memtable, seqno, files, lv) ==
    [ok |-> FALSE, seqno |-> FetchAdd(seqno),
     files |-> Insert(files, seqno, 0),
     lv |-> [lv EXCEPT ![2] = <<[index |-> <<>>, file_len |-> 0]>>]]

FlushMemtableToL0(memtable, seqno, files, lv) ==
    IF MemTableIsEmpty(memtable)
    THEN [ok |-> TRUE, seqno |-> seqno, files |-> files, lv |-> lv]
    ELSE LET file_number == seqno
             added == AddAll(BuilderNew, memtable.data, DOMAIN memtable.data)
             built == IF added.ok THEN BuilderFinish(added.b)
                      ELSE [ok |-> FALSE, sst |-> <<>>, file_len |-> 0]
         IN  [ok |-> built.ok,
              seqno |-> FetchAdd(seqno),
              files |-> Insert(files, file_number, built.file_len),
              lv |-> IF built.ok
                     THEN [lv EXCEPT ![1] = Append(lv[1], built.sst)]
                     ELSE lv]

(***************************************************************************)
(* get (lsm.rs:101-131), one lock section at a time.                       *)
(***************************************************************************)
\* A faulty scan of the queue, for comparison: the oldest memtable holding
\* the key decides.
GetImmutableOldestFirst(imm, i, key) ==
    IF \E j \in 1..i : MemTableGet(imm[j], key).some
    THEN MemTableGet(imm[CHOOSE j \in 1..i :
                             /\ MemTableGet(imm[j], key).some
                             /\ \A h \in 1..(j - 1) : ~MemTableGet(imm[h], key).some],
                     key)
    ELSE None

\* immutable.iter().rev(): the newest memtable holding the key decides.
RECURSIVE GetImmutable(_, _, _)
GetImmutable(imm, i, key) ==
    IF i = 0 THEN None
    ELSE IF MemTableGet(imm[i], key).some THEN MemTableGet(imm[i], key)
    ELSE GetImmutable(imm, i - 1, key)

\* one level, newest file first: [ok, r]
RECURSIVE GetLevel(_, _, _)
GetLevel(level, i, key) ==
    IF i = 0 THEN [ok |-> TRUE, r |-> None]
    ELSE LET g == SSTableGet(level[i], key)
         IN  IF ~g.ok \/ g.r.some THEN g ELSE GetLevel(level, i - 1, key)

RECURSIVE GetLevels(_, _, _)
GetLevels(lv, l, key) ==
    IF l > Len(lv) THEN [ok |-> TRUE, r |-> None]
    ELSE LET g == GetLevel(lv[l], Len(lv[l]), key)
         IN  IF ~g.ok \/ g.r.some THEN g ELSE GetLevels(lv, l + 1, key)

\* A faulty miss, for comparison: absence reported as an error.
GetMissAsError == [ok |-> FALSE, v |-> None]

\* lsm.rs:130: no tier holds the key.
GetMiss == [ok |-> TRUE, v |-> None]

\* The result of a get that runs from the current state with no other
\* caller's step in between: [ok, v].
LsmGet(key) ==
    IF MemTableGet(active_memtable, key).some
    THEN [ok |-> TRUE, v |-> MemTableGet(active_memtable, key).v]
    ELSE IF GetImmutable(immutable_memtables, Len(immutable_memtables), key).some
    THEN [ok |-> TRUE,
          v |-> GetImmutable(immutable_memtables, Len(immutable_memtables), key).v]
    ELSE LET g == GetLevels(levels, 1, key)
         IN  IF ~g.ok THEN [ok |-> FALSE, v |-> None]
             ELSE IF g.r.some THEN [ok |-> TRUE, v |-> g.r.v]
             ELSE GetMiss

(***************************************************************************)
(* recover_from_wal (lsm.rs:231-250): the memtable and the counter after   *)
(* replaying the recovered entries in order.                               *)
(***************************************************************************)
\* A faulty replay step, for comparison: a recovered tombstone is dropped.
ReplayEntryPutsOnly(memtable, entry) ==
    IF entry.value.some
    THEN MemTablePut(memtable, entry.key, entry.value.v, entry.sequence)
    ELSE memtable

ReplayEntry(memtable, entry) ==
    IF entry.value.some
    THEN MemTablePut(memtable, entry.key, entry.value.v, entry.sequence)
    ELSE MemTableDelete(memtable, entry.key, entry.sequence)

\* A faulty replay, for comparison: the counter follows the last entry
\* replayed, whatever its sequence number.
RECURSIVE ReplayCounterOfLast(_, _, _)
ReplayCounterOfLast(entries, memtable, seqno) ==
    IF entries = <<>> THEN [memtable |-> memtable, seqno |-> seqno]
    ELSE ReplayCounterOfLast(Tail(entries), ReplayEntry(memtable, Head(entries)),
                             Head(entries).sequence + 1)

RECURSIVE Replay(_, _, _)
Replay(entries, memtable, seqno) ==
    IF entries = <<>> THEN [memtable |-> memtable, seqno |-> seqno]
    ELSE LET entry == Head(entries)
         IN  Replay(Tail(entries),
                    ReplayEntry(memtable, entry),
                    IF entry.sequence >= seqno THEN entry.sequence + 1 ELSE seqno)

(***************************************************************************)
(* Bookkeeping of a call's start and return.                               *)
(***************************************************************************)
Pending(q, key) == pc[q] # "idle" /\ IsMutation(call[q]) /\ call[q].key = key

\* The call of p returns res.
Returned(c, res) ==
    [c EXCEPT !.res = res, !.old = MemTableNew, !.batch = <<>>, !.second = FALSE]

LastAfterReturn(c, res) ==
    IF IsMutation(c) /\ last[c.key].status = "pending" /\ last[c.key].seq = c.seq
    THEN [last EXCEPT ![c.key].status = res]
    ELSE last

MaxDoneAfterReturn(c) ==
    IF IsMutation(c) /\ c.seq > maxDone THEN c.seq ELSE maxDone

Return(p, c, res) ==
    /\ pc' = [pc EXCEPT ![p] = "idle"]
    /\ call' = [call EXCEPT ![p] = NoCall]
    /\ ret' = Returned(c, res)
    /\ last' = LastAfterReturn(c, res)
    /\ maxDone' = MaxDoneAfterReturn(c)

Goto(p, c, where) ==
    /\ pc' = [pc EXCEPT ![p] = where]
    /\ call' = [call EXCEPT ![p] = c]
    /\ ret' = NoCall
    /\ UNCHANGED <<last, maxDone>>

\* Callers are interchangeable: a new call takes the lowest free slot.
Budget == [mutation |-> MaxMutations, flush |-> MaxFlushes, get |-> MaxGets]

CanStart(p, what) ==
    /\ up /\ pc[p] = "idle" /\ nops[what] < Budget[what]
    /\ \A q \in Procs : q < p => pc[q] # "idle"

(***************************************************************************)
(* The four locks of the engine: the RwLock of the active memtable, the    *)
(* Mutex of the immutable queue, the RwLock of the levels and the Mutex of *)
(* the WAL file.  Every guard is taken and released inside one block or    *)
(* one statement (put drops the active memtable's guard before it rotates, *)
(* lsm.rs:93), so a caller holds no lock between two of its steps.         *)
(***************************************************************************)
\* A faulty rotation, for comparison: the guard taken for the swap is kept
\* until the flush that follows has ended.
LocksHeldUntilFlushed(c, position) ==
    IF position \in {"push", "take", "build"} THEN {"active_memtable"} ELSE {}

\* A faulty put/delete, for comparison: the guard of the memtable write is
\* not dropped before rotate_memtable is called.
LocksHeldIntoRotation(c, position) ==
    IF c.kind \in {"put", "delete"} /\ position \in {"swap", "push", "take", "build"}
    THEN {"active_memtable"} ELSE {}

\* The locks the caller of c holds while it waits at position.
LocksHeld(c, position) == {}

\* Nobody holds the lock: it can be acquired.
Free(lock) == \A q \in Procs : lock \notin LocksHeld(call[q], pc[q])

(***************************************************************************)
(* put (lsm.rs:74-99) and delete (lsm.rs:133-157).                         *)
(***************************************************************************)
\* lsm.rs:75 / 134: the sequence number is taken.
StartMutation(p, kind, key, value) ==
    /\ ret' = NoCall
    /\ pc' = [pc EXCEPT ![p] = "wal"]
    /\ call' = [call EXCEPT ![p] =
                   [NoCall EXCEPT !.kind = kind, !.key = key, !.value = value,
                                  !.seq = sequence_number, !.after = maxDone]]
    /\ sequence_number' = FetchAdd(sequence_number)
    /\ nops' = [nops EXCEPT !.mutation = @ + 1]
    /\ last' = [last EXCEPT ![key] = [kind |-> kind, value |-> value,
                                      seq |-> sequence_number, status |-> "pending",
                                      epoch |-> crashes]]
    /\ racy' = [racy EXCEPT ![key] = racy[key] \/ \E q \in Procs \ {p} : Pending(q, key)]
    /\ UNCHANGED <<active_memtable, immutable_memtables, levels, config, disk, up,
                   crashes, maxDone, parts>>

PutStart(p) ==
    /\ CanStart(p, "mutation")
    /\ \E key \in Keys, value \in Values : StartMutation(p, "put", key, Some(value))

DeleteStart(p) ==
    /\ CanStart(p, "mutation")
    /\ \E key \in Keys : StartMutation(p, "delete", key, None)

\* lsm.rs:84 / 143: wal.append, one exclusive section on the file.
WalStep(p) ==
    /\ up /\ pc[p] = "wal" /\ Free("file")
    /\ walFile' = WalAppend(walFile, [key |-> call[p].key, value |-> call[p].value,
                                      sequence |-> call[p].seq])
    /\ Goto(p, call[p], "mem")
    /\ UNCHANGED <<engine, config, sstFiles, up, crashes, nops, racy, parts>>

\* lsm.rs:87-96 / 146-154: the active memtable is written under its write
\* lock and its size compared with the threshold.
MemStep(p) ==
    /\ up /\ pc[p] = "mem" /\ Free("active_memtable")
    /\ LET c == call[p]
           m == IF c.kind = "put"
                THEN MemTablePut(active_memtable, c.key, c.value.v, c.seq)
                ELSE MemTableDelete(active_memtable, c.key, c.seq)
       IN  /\ active_memtable' = m
           /\ IF MemTableSize(m) >= MemtableThreshold(memtable_size_mb)
              THEN Goto(p, c, "swap")
              ELSE Return(p, c, "Ok")
    /\ UNCHANGED <<sequence_number, immutable_memtables, levels, config, disk, up,
                   crashes, nops, racy, parts>>

(***************************************************************************)
(* flush (lsm.rs:159-163), rotate_memtable (lsm.rs:165-178) and            *)
(* flush_immutable_memtables (lsm.rs:180-191).                             *)
(***************************************************************************)
FlushStart(p) ==
    /\ CanStart(p, "flush")
    /\ pc' = [pc EXCEPT ![p] = "swap"]
    /\ call' = [call EXCEPT ![p] = [NoCall EXCEPT !.kind = "flush", !.after = maxDone,
                                                  !.had = ~MemTableIsEmpty(active_memtable)]]
    /\ nops' = [nops EXCEPT !.flush = @ + 1]
    /\ ret' = NoCall
    /\ UNCHANGED <<engine, config, disk, up, crashes, last, racy, maxDone,
                   parts>>

\* lsm.rs:167-170: the active memtable is replaced by a fresh one.  An empty
\* old memtable is dropped without touching the queue.
RotSwap(p) ==
    /\ up /\ pc[p] = "swap" /\ Free("active_memtable")
    /\ active_memtable' = MemTableNew
    /\ Goto(p, [call[p] EXCEPT !.old = active_memtable],
            IF MemTableIsEmpty(active_memtable) THEN "take" ELSE "push")
    /\ UNCHANGED <<sequence_number, immutable_memtables, levels, config, disk, up,
                   crashes, nops, racy, parts>>

\* lsm.rs:172-175: the old memtable is pushed on the immutable queue.
RotPush(p) ==
    /\ up /\ pc[p] = "push" /\ Free("immutable_memtables")
    /\ immutable_memtables' = Append(immutable_memtables, call[p].old)
    /\ Goto(p, [call[p] EXCEPT !.old = MemTableNew], "take")
    /\ UNCHANGED <<sequence_number, active_memtable, levels, config, disk, up,
                   crashes, nops, racy, parts>>

\* What follows a flush_immutable_memtables that returned Ok: flush() calls
\* it a second time after rotate_memtable; otherwise the call returns Ok.
AfterFlushImmutable(p, c) ==
    IF c.kind = "flush" /\ ~c.second
    THEN Goto(p, [c EXCEPT !.second = TRUE], "take")
    ELSE Return(p, c, "Ok")

\* lsm.rs:181-184: the queue is taken whole.
FlushTake(p) ==
    /\ up /\ pc[p] = "take" /\ Free("immutable_memtables")
    /\ immutable_memtables' = <<>>
    /\ IF immutable_memtables = <<>>
       THEN AfterFlushImmutable(p, call[p])
       ELSE Goto(p, [call[p] EXCEPT !.batch = immutable_memtables], "build")
    /\ UNCHANGED <<sequence_number, active_memtable, levels, config, disk, up,
                   crashes, nops, racy, parts>>

\* lsm.rs:186-188: the next memtable of the batch is flushed to level 0; an
\* error ends the call and drops the rest of the batch.
FlushBuild(p) ==
    /\ up /\ pc[p] = "build" /\ Free("levels")
    /\ LET c == call[p]
           r == FlushMemtableToL0(Head(c.batch), sequence_number, sstFiles, levels)
       IN  /\ sequence_number' = r.seqno
           /\ sstFiles' = r.files
           /\ levels' = r.lv
           /\ IF ~r.ok THEN Return(p, c, "Err")
              ELSE IF Tail(c.batch) = <<>> THEN AfterFlushImmutable(p, [c EXCEPT !.batch = <<>>])
              ELSE Goto(p, [c EXCEPT !.batch = Tail(c.batch)], "build")
    /\ UNCHANGED <<active_memtable, immutable_memtables, config, walFile, up,
                   crashes, nops, racy, parts>>

(***************************************************************************)
(* get, in its three lock sections.                                        *)
(***************************************************************************)
GetStart(p) ==
    /\ CanStart(p, "get") /\ Free("active_memtable")
    /\ \E key \in Keys :
         LET c == [NoCall EXCEPT !.kind = "get", !.key = key, !.after = maxDone]
             g == MemTableGet(active_memtable, key)
         IN  IF g.some THEN Return(p, [c EXCEPT !.out = g.v], "Ok")
             ELSE Goto(p, c, "get_imm")
    /\ nops' = [nops EXCEPT !.get = @ + 1]
    /\ UNCHANGED <<engine, config, disk, up, crashes, racy, parts>>

GetImm(p) ==
    /\ up /\ pc[p] = "get_imm" /\ Free("immutable_memtables")
    /\ LET g == GetImmutable(immutable_memtables, Len(immutable_memtables), call[p].key)
       IN  IF g.some THEN Return(p, [call[p] EXCEPT !.out = g.v], "Ok")
           ELSE Goto(p, call[p], "get_lvl")
    /\ UNCHANGED <<engine, config, disk, up, crashes, nops, racy, parts>>

GetLvl(p) ==
    /\ up /\ pc[p] = "get_lvl" /\ Free("levels")
    /\ LET g == GetLevels(levels, 1, call[p].key)
       IN  IF ~g.ok THEN Return(p, call[p], "Err")
           ELSE IF g.r.some THEN Return(p, [call[p] EXCEPT !.out = g.r.v], "Ok")
           ELSE Return(p, [call[p] EXCEPT !.out = GetMiss.v],
                       IF GetMiss.ok THEN "Ok" ELSE "Err")
    /\ UNCHANGED <<engine, config, disk, up, crashes, nops, racy, parts>>

(***************************************************************************)
(* Crash (or drop of the engine: nothing runs on drop) and open            *)
(* (lsm.rs:39-72).                                                         *)
(***************************************************************************)
Crash ==
    /\ up /\ crashes < MaxCrashes
    /\ up' = FALSE
    /\ crashes' = crashes + 1
    /\ sequence_number' = 0
    /\ active_memtable' = MemTableNew
    /\ immutable_memtables' = <<>>
    /\ levels' = [l \in 1..max_levels |-> <<>>]
    /\ pc' = [p \in Procs |-> "idle"]
    /\ call' = [p \in Procs |-> NoCall]
    /\ ret' = NoCall
    /\ last' = [k \in Keys |-> IF last[k].status = "pending"
                               THEN [last[k] EXCEPT !.status = "lost"] ELSE last[k]]
    /\ maxDone' = -1
    /\ UNCHANGED <<config, disk, nops, racy, parts>>

Open ==
    /\ ~up
    /\ LET rec == WalRecover(walFile)
           rep == Replay(rec.entries, MemTableNew, 0)
       IN  /\ active_memtable' = rep.memtable
           /\ sequence_number' = rep.seqno
    /\ up' = TRUE
    /\ ret' = NoCall
    /\ UNCHANGED <<immutable_memtables, levels, config, disk, crashes, pc, call,
                   nops, history, parts>>

NoHandle == [src |-> "none", ok |-> FALSE, err |-> "none", sst |-> <<>>]

NoGot == [done |-> FALSE, key |-> <<>>, cache |-> <<>>, res |-> [ok |-> TRUE, r |-> None]]

NoCacheCall ==
    [op |-> "none", key |-> <<>>, value |-> <<>>, out |-> None, panicked |-> FALSE,
     evicted |-> <<>>, before |-> BlockCacheNew(CacheCapacity), recent |-> <<>>]

InitEngine ==
    /\ sequence_number = 0
    /\ active_memtable = MemTableNew
    /\ immutable_memtables = <<>>
    /\ levels = [l \in 1..max_levels |-> <<>>]
    /\ memtable_size_mb \in {0, 1}
    /\ walFile = <<>>
    /\ sstFiles = <<>>
    /\ up = TRUE
    /\ crashes = 0
    /\ pc = [p \in Procs |-> "idle"]
    /\ call = [p \in Procs |-> NoCall]
    /\ ret = NoCall
    /\ nops = [mutation |-> 0, flush |-> 0, get |-> 0]
    /\ last = [k \in Keys |-> NoLast]
    /\ racy = [k \in Keys |-> FALSE]
    /\ maxDone = -1

NoMemCall ==
    [op |-> "none", key |-> <<>>, value |-> None, sequence |-> 0, before |-> MemTableNew]

NoTxnCall ==
    [op |-> "none", id |-> 0, res |-> [ok |-> TRUE, err |-> "none", id |-> 0],
     out |-> None, before |-> <<>>]

NoRaftCall ==
    [op |-> "none", data |-> <<>>, res |-> [ok |-> TRUE, err |-> "none", index |-> 0],
     before |-> <<>>]

\* The node of raft.rs's tests: a node without peers.
TestConfig ==
    [node_id |-> 1, peers |-> <<>>, election_timeout_ms |-> 150,
     heartbeat_interval_ms |-> 50]

InitOthers ==
    /\ mem = MemTableNew
    /\ memRet = NoMemCall
    /\ memLast = <<>>
    /\ memOps = 0
    /\ txns = <<>>
    /\ txnRet = NoTxnCall
    /\ txnOps = 0
    /\ raftRet = NoRaftCall
    /\ raftOps = 0

InitParts ==
    /\ InitOthers
    /\ recovered = NotRecovered
    /\ damaged = {}
    /\ sstFile = FileWithoutFooter(0)
    /\ sstRun = <<>>
    /\ sstHandle = NoHandle
    /\ sstGot = NoGot
    /\ blockCache = BlockCacheNew(CacheCapacity)
    /\ cacheRet = NoCacheCall
    /\ recency = <<>>
    /\ cacheOps = 0

Init ==
    /\ InitEngine
    /\ InitParts
    /\ overflow_checks = FALSE
    /\ raft = RaftNodeNew(TestConfig)

Next ==
    \/ \E p \in Procs : PutStart(p)
    \/ \E p \in Procs : DeleteStart(p)
    \/ \E p \in Procs : WalStep(p)
    \/ \E p \in Procs : MemStep(p)
    \/ \E p \in Procs : FlushStart(p)
    \/ \E p \in Procs : RotSwap(p)
    \/ \E p \in Procs : RotPush(p)
    \/ \E p \in Procs : FlushTake(p)
    \/ \E p \in Procs : FlushBuild(p)
    \/ \E p \in Procs : GetStart(p)
    \/ \E p \in Procs : GetImm(p)
    \/ \E p \in Procs : GetLvl(p)
    \/ Crash
    \/ Open

Spec == Init /\ [][Next]_vars

(***************************************************************************)
(* SpecWal: the write-ahead log alone.  Records are appended, records      *)
(* already in the file are damaged on disk (the length prefix, the stored  *)
(* checksum, the payload, or the record's encoding), recover is called,    *)
(* and the file is truncated.                                              *)
(***************************************************************************)
notWal == <<sequence_number, active_memtable, immutable_memtables, levels,
            memtable_size_mb, sstFiles, up, crashes, pc, call, ret, nops,
            last, racy, maxDone, sstOnly, cacheOnly, others>>

WalAppendCall ==
    /\ Len(walFile) < MaxWalLen
    /\ \E key \in Keys, value \in {None} \cup {Some(x) : x \in Values} :
         walFile' = WalAppend(walFile, [key |-> key, value |-> value,
                                        sequence |-> Len(walFile)])
    /\ recovered' = NotRecovered
    /\ UNCHANGED <<damaged, notWal>>

Damage(record, kind) ==
    CASE kind = "crc" -> [record EXCEPT !.crc = (@ + 1) % 65521]
      [] kind = "payload" -> [record EXCEPT !.data.sequence = @ + 1]
      [] kind = "overrun" -> [record EXCEPT !.overrun = TRUE]
      [] OTHER -> [record EXCEPT !.decodes = FALSE]

WalDamage ==
    /\ \E i \in (1..Len(walFile)) \ damaged, kind \in {"crc", "payload", "garbled", "overrun"} :
         /\ walFile' = [walFile EXCEPT ![i] = Damage(walFile[i], kind)]
         /\ damaged' = damaged \cup {i}
    /\ recovered' = NotRecovered
    /\ UNCHANGED notWal

WalRecoverCall ==
    /\ recovered' = [done |-> TRUE, ok |-> WalRecover(walFile).ok,
                     entries |-> WalRecover(walFile).entries]
    /\ UNCHANGED <<walFile, damaged, notWal>>

WalTruncateCall ==
    /\ walFile # <<>>
    /\ walFile' = WalTruncate(walFile)
    /\ damaged' = {}
    /\ recovered' = NotRecovered
    /\ UNCHANGED notWal

InitWal == Init /\ memtable_size_mb = 1

NextWal == WalAppendCall \/ WalDamage \/ WalRecoverCall \/ WalTruncateCall

SpecWal == InitWal /\ [][NextWal]_vars

(***************************************************************************)
(* SpecSst: one SSTable file.  A builder is given a key-sorted run and     *)
(* finished; a file is put in place by other means (any length, footer     *)
(* and index); the file is opened; the handle is read through a block      *)
(* cache that holds the block at offset 0 or not.                          *)
(***************************************************************************)
notSst == <<sequence_number, active_memtable, immutable_memtables, levels,
            memtable_size_mb, walFile, sstFiles, up, crashes, pc, call, ret, nops,
            last, racy, maxDone, walOnly, cacheOnly, others>>

Options == {None} \cup {Some(x) : x \in Values}

Runs == UNION {[S -> {[value |-> o] : o \in Options}] : S \in SUBSET Keys}

IndexChoices ==
    {<<>>} \cup {<<[key |-> k, offset |-> 0, size |-> n]>> : k \in Keys, n \in {0, 5}}

SstFiles ==
    {f \in [file_len : {2, FOOTER_SIZE - 1, FOOTER_SIZE + 2, FOOTER_SIZE + 7,
                        FOOTER_SIZE + 12, FOOTER_SIZE + 17},
            index_at : {0, 5},
            index_len : {2, 12},
            index_entries : IndexChoices,
            footer_len : {FOOTER_SIZE - 8, FOOTER_SIZE},
            footer : [index_offset : {0, 5}, index_size : {2, 12, 2 * FOOTER_SIZE},
                      num_entries : {1}]] :
        /\ f.file_len >= FOOTER_SIZE => f.file_len = f.index_at + f.index_len + FOOTER_SIZE
        /\ (f.index_len = 2) = (f.index_entries = <<>>)}

CacheViews == {<<>>} \cup {(0 :> v) : v \in Values}

SstBuild ==
    /\ \E run \in Runs :
         LET added == AddAll(BuilderNew, run, DOMAIN run)
             built == IF added.ok THEN BuilderFinish(added.b)
                      ELSE [ok |-> FALSE, sst |-> <<>>, file_len |-> 0,
                            file |-> FileWithoutFooter(0)]
         IN  /\ sstFile' = built.file
             /\ sstRun' = run
             /\ sstHandle' = [src |-> "finish", ok |-> built.ok,
                              err |-> IF built.ok THEN "none" ELSE "Build",
                              sst |-> built.sst]
    /\ sstGot' = NoGot
    /\ UNCHANGED notSst

SstWrite ==
    /\ \E f \in SstFiles : sstFile' = f
    /\ sstRun' = <<>>
    /\ sstHandle' = NoHandle
    /\ sstGot' = NoGot
    /\ UNCHANGED notSst

SstOpen ==
    /\ LET opened == SSTableOpen(sstFile)
       IN  sstHandle' = [src |-> "open", ok |-> opened.ok, err |-> opened.err,
                         sst |-> IF opened.ok
                                 THEN [index |-> opened.index,
                                       file_len |-> sstFile.file_len]
                                 ELSE <<>>]
    /\ sstGot' = NoGot
    /\ UNCHANGED <<sstFile, sstRun, notSst>>

SstGet ==
    /\ sstHandle.ok
    /\ \E key \in Keys, cache \in CacheViews :
         sstGot' = [done |-> TRUE, key |-> key, cache |-> cache,
                    res |-> SSTableGetWith(sstHandle.sst, key, cache)]
    /\ UNCHANGED <<sstFile, sstRun, sstHandle, notSst>>

InitSst == Init /\ memtable_size_mb = 1

NextSst == SstBuild \/ SstWrite \/ SstOpen \/ SstGet

SpecSst == InitSst /\ [][NextSst]_vars

(***************************************************************************)
(* SpecCache: one BlockCache of capacity CacheCapacity under put and get   *)
(* calls, in a build that checks integer overflow or in one that wraps.    *)
(***************************************************************************)
notCache == <<sequence_number, active_memtable, immutable_memtables, levels,
              memtable_size_mb, walFile, sstFiles, up, crashes, pc, call, ret, nops,
              last, racy, maxDone, walOnly, sstOnly, others>>

\* The keys held, in the order of their last put or get hit.
RecencyAfter(recent, held, touched) ==
    LET Kept(k) == k \in held /\ k # touched
    IN  IF touched \in held THEN Append(SelectSeq(recent, Kept), touched)
        ELSE SelectSeq(recent, Kept)

CachePutCall ==
    /\ cacheOps < MaxCacheOps
    /\ \E key \in CacheKeys, value \in CacheValues :
         LET r == CachePut(blockCache, key, value, overflow_checks)
         IN  /\ blockCache' = r.cache
             /\ cacheRet' = [op |-> "put", key |-> key, value |-> value, out |-> None,
                             panicked |-> r.panicked, evicted |-> r.evicted,
                             before |-> blockCache, recent |-> recency]
             /\ recency' = RecencyAfter(recency, DOMAIN r.cache.data, key)
    /\ cacheOps' = cacheOps + 1
    /\ UNCHANGED <<overflow_checks, notCache>>

CacheGetCall ==
    /\ cacheOps < MaxCacheOps
    /\ \E key \in CacheKeys :
         LET r == CacheGet(blockCache, key)
         IN  /\ blockCache' = r.cache
             /\ cacheRet' = [op |-> "get", key |-> key, value |-> <<>>, out |-> r.out,
                             panicked |-> FALSE, evicted |-> <<>>,
                             before |-> blockCache, recent |-> recency]
             /\ recency' = RecencyAfter(recency, DOMAIN r.cache.data, key)
    /\ cacheOps' = cacheOps + 1
    /\ UNCHANGED <<overflow_checks, notCache>>

InitCache ==
    /\ InitEngine /\ memtable_size_mb = 1
    /\ InitParts
    /\ overflow_checks \in BOOLEAN
    /\ raft = RaftNodeNew(TestConfig)

NextCache == CachePutCall \/ CacheGetCall

SpecCache == InitCache /\ [][NextCache]_vars

(***************************************************************************)
(* SpecMem: one MemTable under put and delete calls with keys of one and   *)
(* two bytes, values of zero to two bytes and sequence numbers in any      *)
(* order.                                                                  *)
(***************************************************************************)
MemKeys == {<<1>>, <<2, 2>>}
MemValues == {<<>>, <<1>>, <<1, 1>>}
MemSeqs == 0..(NumMemSeqs - 1)

notMem == <<sequence_number, active_memtable, immutable_memtables, levels,
            memtable_size_mb, walFile, sstFiles, up, crashes, pc, call, ret, nops,
            last, racy, maxDone, walOnly, sstOnly, cacheOnly, txnOnly, raftOnly>>

MemPutCall ==
    /\ memOps < MaxMemOps
    /\ \E key \in MemKeys, value \in MemValues, sequence \in MemSeqs :
         /\ mem' = MemTablePut(mem, key, value, sequence)
         /\ memRet' = [op |-> "put", key |-> key, value |-> Some(value),
                       sequence |-> sequence, before |-> mem]
         /\ memLast' = Insert(memLast, key, Some(value))
    /\ memOps' = memOps + 1
    /\ UNCHANGED notMem

MemDeleteCall ==
    /\ memOps < MaxMemOps
    /\ \E key \in MemKeys, sequence \in MemSeqs :
         /\ mem' = MemTableDelete(mem, key, sequence)
         /\ memRet' = [op |-> "delete", key |-> key, value |-> None,
                       sequence |-> sequence, before |-> mem]
         /\ memLast' = Insert(memLast, key, None)
    /\ memOps' = memOps + 1
    /\ UNCHANGED notMem

InitMem == Init /\ memtable_size_mb = 1

NextMem == MemPutCall \/ MemDeleteCall

SpecMem == InitMem /\ [][NextMem]_vars

(***************************************************************************)
(* SpecTxn: one TransactionManager under begin, commit, abort and          *)
(* get_transaction, with ids the manager knows and ids it does not.        *)
(***************************************************************************)
notTxn == <<sequence_number, active_memtable, immutable_memtables, levels,
            memtable_size_mb, walFile, sstFiles, up, crashes, pc, call, ret, nops,
            last, racy, maxDone, walOnly, sstOnly, cacheOnly, memOnly, raftOnly>>

TxnCall(op, id, r) ==
    /\ txnOps < MaxTxnOps
    /\ txns' = r.map
    /\ txnRet' = [op |-> op, id |-> id, res |-> r.res,
                  out |-> GetTransaction(r.map, id), before |-> txns]
    /\ txnOps' = txnOps + 1
    /\ UNCHANGED notTxn

TxnBeginCall ==
    \E id \in TxnIds \ DOMAIN txns, isolation_level \in IsolationLevels :
        TxnCall("begin", id, TxnBegin(txns, id, isolation_level))

TxnCommitCall == \E id \in TxnIds : TxnCall("commit", id, TxnCommit(txns, id))

TxnAbortCall == \E id \in TxnIds : TxnCall("abort", id, TxnAbort(txns, id))

TxnGetCall ==
    \E id \in TxnIds :
        TxnCall("get_transaction", id,
                [map |-> txns, res |-> [ok |-> TRUE, err |-> "none", id |-> id]])

InitTxn == Init /\ memtable_size_mb = 1

NextTxn == TxnBeginCall \/ TxnCommitCall \/ TxnAbortCall \/ TxnGetCall

SpecTxn == InitTxn /\ [][NextTxn]_vars

(***************************************************************************)
(* SpecRaft: one RaftNode, created from any configuration, under propose.  *)
(***************************************************************************)
notRaft == <<sequence_number, active_memtable, immutable_memtables, levels,
             memtable_size_mb, walFile, sstFiles, up, crashes, pc, call, ret, nops,
             last, racy, maxDone, walOnly, sstOnly, cacheOnly, memOnly, txnOnly>>

RaftProposeCall ==
    /\ raftOps < MaxRaftOps
    /\ \E data \in RaftData :
         LET r == RaftPropose(raft, data)
         IN  /\ raft' = r.node
             /\ raftRet' = [op |-> "propose", data |-> data, res |-> r.res,
                            before |-> raft.log]
    /\ raftOps' = raftOps + 1
    /\ UNCHANGED notRaft

InitRaft ==
    /\ InitEngine /\ memtable_size_mb = 1
    /\ InitParts
    /\ overflow_checks = FALSE
    /\ raft \in {RaftNodeNew(cfg) : cfg \in RaftConfigs}

NextRaft == RaftProposeCall

SpecRaft == InitRaft /\ [][NextRaft]_vars

(***************************************************************************)
(* Vocabulary of the properties.                                           *)
(***************************************************************************)
Quiescent == up /\ \A p \in Procs : pc[p] = "idle"

Rotating(p) == pc[p] \in {"swap", "push", "take", "build"}

\* No rotation has reached the disk and none is under way.
NoFlushEver == DOMAIN sstFiles = {} /\ \A p \in Procs : ~Rotating(p)

InWal(key, value, seq) ==
    \E i \in 1..Len(walFile) :
        walFile[i].data = [key |-> key, value |-> value, sequence |-> seq]

\* Every memtable alive: the active one, the queued ones, and those a
\* rotating caller holds.
Memtables ==
    {active_memtable}
    \cup {immutable_memtables[i] : i \in 1..Len(immutable_memtables)}
    \cup {call[p].old : p \in Procs}
    \cup UNION {{call[p].batch[i] : i \in 1..Len(call[p].batch)} : p \in Procs}

InSomeMemtable(key, value, seq) ==
    \E m \in Memtables :
        key \in DOMAIN m.data /\ m.data[key] = [value |-> value, sequence |-> seq]

\* The latest mutation issued on k is one whose call returned Ok, and no
\* two mutations of k ever overlapped.
Settled(k, kind) == last[k].kind = kind /\ last[k].status = "Ok" /\ ~racy[k]

(***************************************************************************)
(* C1: once put(k,v) has returned Ok and no later put/delete on k has been *)
(* issued, get(k) returns Some(v), before and after a rotation/flush.      *)
(* Stated for calls made one after another (no call in flight).            *)
(***************************************************************************)
C1_PutThenGet ==
    \A k \in Keys :
        (Quiescent /\ Settled(k, "put")) => LsmGet(k) = [ok |-> TRUE, v |-> last[k].value]

(***************************************************************************)
(* C2: put(k,v) then delete(k) then get(k) returns None, also while a      *)
(* flush moves memtables between tiers: no stale value of k resurfaces     *)
(* past the newer delete.                                                  *)
(***************************************************************************)
C2_DeleteThenGet ==
    \A k \in Keys :
        (up /\ Settled(k, "delete")) => LsmGet(k) = [ok |-> TRUE, v |-> None]

(***************************************************************************)
(* C3: the persistence scenario: put(k,v) returns Ok, the flush() called   *)
(* next succeeds, and after close and reopen get(k) returns Some(v).       *)
(* PersistScenario(k): one put (of k) and one flush are all that was ever  *)
(* called, and the put returned Ok.                                        *)
(***************************************************************************)
PersistScenario(k) ==
    /\ nops = [mutation |-> 1, flush |-> 1, get |-> 0]
    /\ Settled(k, "put")

C3_Persistence ==
    \A k \in Keys :
        PersistScenario(k) =>
            /\ (ret.kind = "flush" /\ ret.after >= last[k].seq) => ret.res = "Ok"
            /\ (up /\ crashes > last[k].epoch /\ Quiescent)
                   => LsmGet(k) = [ok |-> TRUE, v |-> last[k].value]

(***************************************************************************)
(* C4: after put/delete calls that returned Ok, made one after another     *)
(* per key, and no flush, a crash followed by open yields an active        *)
(* memtable holding, for every such key, the outcome of the last record    *)
(* of the key (its value or its tombstone, with its sequence number), and  *)
(* no entry for a key that was never written.                              *)
(***************************************************************************)
Recovered(k) == up /\ NoFlushEver /\ last[k].epoch < crashes

C4_CrashRecovery ==
    \A k \in Keys :
        /\ (Recovered(k) /\ (Settled(k, "put") \/ Settled(k, "delete")))
               => /\ k \in DOMAIN active_memtable.data
                  /\ active_memtable.data[k] =
                         [value |-> last[k].value, sequence |-> last[k].seq]
        /\ (up /\ last[k].kind = "none") => k \notin DOMAIN active_memtable.data

C4_Witness ==
    \E k \in Keys :
        /\ Recovered(k) /\ Settled(k, "delete") /\ Quiescent
        /\ Len(walFile) >= 2
        /\ walFile[1].data.key = k /\ walFile[1].data.value.some
        /\ k \in DOMAIN active_memtable.data
        /\ ~active_memtable.data[k].value.some

(***************************************************************************)
(* C5: recover leaves out a record whose stored checksum differs from the  *)
(* checksum recomputed over its payload, returns every undamaged record,   *)
(* those after the damaged one included, in log order, and returns Ok.     *)
(***************************************************************************)
RECURSIVE Undamaged(_, _, _)
Undamaged(file, bad, i) ==
    IF i > Len(file) THEN <<>>
    ELSE (IF i \in bad THEN <<>> ELSE <<file[i].data>>) \o Undamaged(file, bad, i + 1)

NoOverrun == \A i \in 1..Len(walFile) : ~walFile[i].overrun

C5_RecoverSkipsDamaged ==
    (recovered.done /\ NoOverrun) =>
        /\ recovered.ok
        /\ recovered.entries = Undamaged(walFile, damaged, 1)

C5_Witness ==
    /\ recovered.done /\ recovered.ok
    /\ \E i \in damaged, j \in (1..Len(walFile)) \ damaged :
         /\ i < j
         /\ walFile[i].decodes
         /\ walFile[i].crc # Crc(Serialize(walFile[i].data))
         /\ recovered.entries # <<>>
         /\ recovered.entries[Len(recovered.entries)] = walFile[j].data

(***************************************************************************)
(* C6: the WAL record of a put/delete is appended before the memtable is   *)
(* written and before the call returns Ok: every entry a memtable holds    *)
(* has a WAL record with its key, value and sequence number, and so has    *)
(* every put/delete that returns Ok.                                       *)
(***************************************************************************)
C6_WalBeforeMemtable ==
    /\ \A m \in Memtables : \A k \in DOMAIN m.data :
           InWal(k, m.data[k].value, m.data[k].sequence)
    /\ (IsMutation(ret) /\ ret.res = "Ok") => InWal(ret.key, ret.value, ret.seq)
    /\ \A p \in Procs : (IsMutation(call[p]) /\ pc[p] = "mem")
                            => InWal(call[p].key, call[p].value, call[p].seq)

C6_Witness ==
    /\ ret.kind = "put" /\ ret.res = "Ok"
    /\ ret.key \in DOMAIN active_memtable.data
    /\ active_memtable.data[ret.key] = [value |-> ret.value, sequence |-> ret.seq]
    /\ InWal(ret.key, ret.value, ret.seq)

(***************************************************************************)
(* C7: no partial mutation: a put/delete that returns an error is in       *)
(* neither the WAL nor any memtable; one that returns Ok is in the WAL     *)
(* and readable.                                                           *)
(***************************************************************************)
C7_NoPartialMutation ==
    /\ (IsMutation(ret) /\ ret.res = "Err")
           => /\ ~InWal(ret.key, ret.value, ret.seq)
              /\ ~InSomeMemtable(ret.key, ret.value, ret.seq)
    /\ (IsMutation(ret) /\ ret.res = "Ok" /\ ~racy[ret.key] /\ last[ret.key].seq = ret.seq)
           => /\ InWal(ret.key, ret.value, ret.seq)
              /\ LsmGet(ret.key) = [ok |-> TRUE, v |-> ret.value]

(***************************************************************************)
(* C8: within one engine instance every put/delete gets a sequence number  *)
(* of its own, and a call that starts after another call has returned      *)
(* gets a strictly larger one, whatever the interleaving of the callers.   *)
(* (A returned call's number is the one in its WAL record.)                *)
(***************************************************************************)
C8_SequenceNumbers ==
    /\ \A p, q \in Procs :
           (p # q /\ pc[p] # "idle" /\ pc[q] # "idle"
                  /\ IsMutation(call[p]) /\ IsMutation(call[q]))
               => call[p].seq # call[q].seq
    /\ \A p \in Procs :
           (pc[p] # "idle" /\ IsMutation(call[p]))
               => /\ call[p].seq > call[p].after
                  /\ call[p].seq < sequence_number
                  /\ pc[p] = "wal" =>
                         \A i \in 1..Len(walFile) : walFile[i].data.sequence # call[p].seq
    /\ \A i, j \in 1..Len(walFile) :
           i < j => walFile[i].data.sequence # walFile[j].data.sequence

C8_Witness ==
    /\ pc[1] = "wal" /\ pc[2] = "wal"
    /\ call[1].seq # call[2].seq

(***************************************************************************)
(* C9: once all calls have returned, get(k) reports the outcome of the     *)
(* mutation of k with the highest sequence number, under any interleaving  *)
(* of concurrent put/delete callers.  Stated for runs without crash and    *)
(* without flush, where the latest mutation issued on k is the one with    *)
(* the highest sequence number.                                            *)
(***************************************************************************)
C9_HighestSequenceWins ==
    \A k \in Keys :
        (Quiescent /\ crashes = 0 /\ NoFlushEver /\ last[k].status = "Ok")
            => LsmGet(k) = [ok |-> TRUE, v |-> last[k].value]

(***************************************************************************)
(* C10: get of a key that was never written returns Ok(None), never an     *)
(* error: both the get a caller runs step by step among other callers and  *)
(* the get that runs alone.                                                *)
(***************************************************************************)
C10_AbsentKeyIsNone ==
    /\ (ret.kind = "get" /\ last[ret.key].kind = "none")
           => (ret.res = "Ok" /\ ret.out = None)
    /\ \A k \in Keys : (up /\ last[k].kind = "none") => LsmGet(k) = [ok |-> TRUE, v |-> None]

C10_Witness ==
    /\ ret.kind = "get" /\ ret.res = "Ok" /\ ~ret.out.some
    /\ last[ret.key].kind = "none"
    /\ \E k \in Keys : k # ret.key /\ k \in DOMAIN active_memtable.data
(***************************************************************************)
(* C11: after flush() returns Ok with no put/delete running beside it, the *)
(* active memtable and the immutable queue are empty, and if the active    *)
(* memtable held entries when flush was called they are in a new SSTable   *)
(* of levels[0].                                                           *)
(***************************************************************************)
NoWriterSince(c) ==
    /\ maxDone = c.after
    /\ \A p \in Procs : pc[p] # "idle" => ~IsMutation(call[p])

C11_FlushEmptiesMemtables ==
    (ret.kind = "flush" /\ ret.res = "Ok" /\ NoWriterSince(ret))
        => /\ MemTableIsEmpty(active_memtable)
           /\ immutable_memtables = <<>>
           /\ ret.had => levels[1] # <<>>

(***************************************************************************)
(* C12: with memtable_size_mb = 0 every put rotates and flushes to level   *)
(* 0: after a put that ran alone the active memtable is empty, levels[0]   *)
(* holds an SSTable, and get of the key resolves to the value written.     *)
(***************************************************************************)
C12_ZeroThresholdFlushes ==
    (memtable_size_mb = 0 /\ ret.kind = "put" /\ Quiescent /\ ~racy[ret.key]
                          /\ nops.flush = 0)
        => /\ ret.res = "Ok"
           /\ MemTableIsEmpty(active_memtable)
           /\ levels[1] # <<>>
           /\ LsmGet(ret.key) = [ok |-> TRUE, v |-> ret.value]

(***************************************************************************)
(* C13: after a flush() that returned Ok with no call running beside it    *)
(* the WAL is empty, and the open that follows replays no record.          *)
(***************************************************************************)
C13_FlushTruncatesWal ==
    /\ (ret.kind = "flush" /\ ret.res = "Ok" /\ Quiescent /\ NoWriterSince(ret))
           => walFile = <<>>
    /\ (ret.kind = "flush" /\ ret.res = "Ok" /\ Quiescent /\ NoWriterSince(ret))
           => Replay(WalRecover(walFile).entries, MemTableNew, 0).memtable = MemTableNew
(***************************************************************************)
(* C14: for an SSTable built by adding a key-sorted run and finish, and    *)
(* for every state of the block cache, get(k) returns Some(Some(v)) when   *)
(* k was added with value v, Some(None) when k was added as a tombstone,   *)
(* and None when k was not added.                                          *)
(***************************************************************************)
ExpectedGet(run, key) ==
    IF key \in DOMAIN run THEN Some(run[key].value) ELSE None

C14_SSTableGetFindsRun ==
    sstHandle.src = "finish"
        => /\ sstHandle.ok
           /\ \A key \in Keys, cache \in CacheViews :
                  SSTableGetWith(sstHandle.sst, key, cache)
                      = [ok |-> TRUE, r |-> ExpectedGet(sstRun, key)]

(***************************************************************************)
(* C15: finish leaves the file [data blocks][index][48-byte footer]: the   *)
(* footer's index_offset/index_size delimit the index bytes of the file,   *)
(* the footer is the final 48 bytes, and opening the file yields the       *)
(* index the builder recorded.                                             *)
(***************************************************************************)
C15_FinishedFileLayout ==
    sstHandle.src = "finish"
        => /\ sstHandle.ok
           /\ sstFile.footer_len = FOOTER_SIZE
           /\ sstFile.footer.index_offset = sstFile.index_at
           /\ sstFile.footer.index_size = sstFile.index_len
           /\ sstFile.file_len = sstFile.index_at + sstFile.index_len + FOOTER_SIZE
           /\ SSTableOpen(sstFile).ok
           /\ SSTableOpen(sstFile).index = sstHandle.sst.index

(***************************************************************************)
(* C16: open of a file shorter than 48 bytes, or whose final 48 bytes do   *)
(* not decode to a footer, returns a Corruption error and no handle.       *)
(***************************************************************************)
C16_OpenRejectsBadFooter ==
    (sstHandle.src = "open"
        /\ (sstFile.file_len < FOOTER_SIZE \/ sstFile.footer_len # FOOTER_SIZE))
        => /\ ~sstHandle.ok
           /\ sstHandle.err = "Corruption"
           /\ sstHandle.sst = <<>>

C16_Witness ==
    /\ sstHandle.src = "open"
    /\ sstFile.file_len >= FOOTER_SIZE
    /\ sstFile.footer_len # FOOTER_SIZE
    /\ sstFile.footer.index_offset = sstFile.index_at
    /\ sstFile.footer.index_size = sstFile.index_len
    /\ sstHandle.err = "Corruption"
(***************************************************************************)
(* C17: eviction is strict LRU: every entry a put evicts was, when it was  *)
(* evicted, the least recently used of the entries then held (the key      *)
(* being put aside), recency being the order of the last put or get hit.   *)
(***************************************************************************)
Pos(order, key) == CHOOSE i \in 1..Len(order) : order[i] = key

EvictedBefore(i) == {cacheRet.evicted[j] : j \in 1..(i - 1)}

C17_StrictLRU ==
    cacheRet.op = "put" =>
        \A i \in 1..Len(cacheRet.evicted) :
            \A r \in (DOMAIN cacheRet.before.data)
                         \ ({cacheRet.key, cacheRet.evicted[i]} \cup EvictedBefore(i)) :
                Pos(cacheRet.recent, cacheRet.evicted[i]) < Pos(cacheRet.recent, r)

(***************************************************************************)
(* C18: after any sequence of put and get calls the total cost             *)
(* key.len() + value.len() of the entries held does not exceed the         *)
(* capacity.                                                               *)
(***************************************************************************)
RECURSIVE CostOf(_, _)
CostOf(data, keys) ==
    IF keys = {} THEN 0
    ELSE LET k == CHOOSE x \in keys : TRUE
         IN  Len(k) + Len(data[k].value) + CostOf(data, keys \ {k})

CostHeld(c) == CostOf(c.data, DOMAIN c.data)

C18_CostWithinCapacity == CostHeld(blockCache) <= blockCache.capacity

(***************************************************************************)
(* C19: a put whose entry alone costs more than the capacity is not        *)
(* cached: the call reports no failure and a get of the key returns None.  *)
(***************************************************************************)
C19_OversizedNotCached ==
    (cacheRet.op = "put" /\ Len(cacheRet.key) + Len(cacheRet.value) > blockCache.capacity)
        => /\ ~cacheRet.panicked
           /\ CacheGet(blockCache, cacheRet.key).out = None

(***************************************************************************)
(* C20: after put(k,v) with cost <= capacity get(k) returns v; a put       *)
(* changes the value of no other key; get of a key not held returns None;  *)
(* a get hit returns the value held, moves the key to the most recently    *)
(* used position and changes no value.                                     *)
(***************************************************************************)
C20_PutThenGetCached ==
    /\ (cacheRet.op = "put" /\ Len(cacheRet.key) + Len(cacheRet.value) <= blockCache.capacity)
           => /\ ~cacheRet.panicked
              /\ CacheGet(blockCache, cacheRet.key).out = Some(cacheRet.value)
    /\ cacheRet.op = "put"
           => \A k \in (DOMAIN blockCache.data) \ {cacheRet.key} :
                  /\ k \in DOMAIN cacheRet.before.data
                  /\ blockCache.data[k] = cacheRet.before.data[k]
    /\ cacheRet.op = "get"
           => /\ blockCache.data = cacheRet.before.data
              /\ blockCache.current_size = cacheRet.before.current_size
              /\ IF cacheRet.key \in DOMAIN cacheRet.before.data
                 THEN /\ cacheRet.out = Some(cacheRet.before.data[cacheRet.key].value)
                      /\ blockCache.access_order # <<>>
                      /\ blockCache.access_order[Len(blockCache.access_order)] = cacheRet.key
                 ELSE /\ cacheRet.out = None
                      /\ blockCache.access_order = cacheRet.before.access_order
(***************************************************************************)
(* C21: MemTable.get(k) reflects the most recent insertion of k whatever   *)
(* the sequence numbers passed: None if k was never inserted, Some(None)   *)
(* if the last insertion was a delete, Some(Some(v)) if it was put(k,v);   *)
(* the memtable holds one entry per key inserted, and no other.            *)
(***************************************************************************)
C21_MemTableLastInsertionWins ==
    /\ \A k \in MemKeys :
           MemTableGet(mem, k) = (IF k \in DOMAIN memLast THEN Some(memLast[k]) ELSE None)
    /\ DOMAIN mem.data = DOMAIN memLast
    /\ memRet.op # "none" =>
           /\ MemTableGet(mem, memRet.key) = Some(memRet.value)
           /\ mem.data[memRet.key].sequence = memRet.sequence

C21_Witness ==
    /\ memRet.op = "put"
    /\ memRet.key \in DOMAIN memRet.before.data
    /\ memRet.before.data[memRet.key].sequence > memRet.sequence
    /\ memRet.before.data[memRet.key].value # memRet.value
    /\ MemTableGet(mem, memRet.key) = Some(memRet.value)
    /\ \E k \in MemKeys : MemTableGet(mem, k) = Some(None)

(***************************************************************************)
(* C30: after any sequence of put and delete on a MemTable, size() is the  *)
(* sum over its entries of key.len() + value.len() (0 for a tombstone)     *)
(* + 16: overwriting a key replaces its contribution, and the subtraction  *)
(* of the old contribution never goes below zero.                          *)
(***************************************************************************)
EntrySize(m, k) ==
    Len(k) + (IF m.data[k].value.some THEN Len(m.data[k].value.v) ELSE 0) + 16

RECURSIVE EntriesSize(_, _)
EntriesSize(m, keys) ==
    IF keys = {} THEN 0
    ELSE LET k == CHOOSE x \in keys : TRUE
         IN  EntrySize(m, k) + EntriesSize(m, keys \ {k})

C30_MemTableSizeIsSum ==
    /\ MemTableSize(mem) = EntriesSize(mem, DOMAIN mem.data)
    /\ (memRet.op # "none" /\ memRet.key \in DOMAIN memRet.before.data)
           => MemTableSize(memRet.before) >= EntrySize(memRet.before, memRet.key)

C30_Witness ==
    /\ memRet.op = "delete"
    /\ memRet.key \in DOMAIN memRet.before.data
    /\ memRet.before.data[memRet.key].value = Some(<<1, 1>>)
    /\ Cardinality(DOMAIN mem.data) = 2
    /\ MemTableSize(mem) = MemTableSize(memRet.before) - 2
(***************************************************************************)
(* C22: begin returns the id of a transaction that get_transaction         *)
(* reports as Active; commit of an Active transaction returns Ok and the   *)
(* transaction is then Committed; abort of a known transaction returns Ok  *)
(* and the transaction is then Aborted; commit or abort of an unknown id   *)
(* returns NotFound and changes nothing.                                   *)
(***************************************************************************)
Known(c) == c.id \in DOMAIN c.before

C22_TransactionLifecycle ==
    /\ txnRet.op = "begin" =>
           /\ txnRet.res.ok /\ ~Known(txnRet)
           /\ GetTransaction(txns, txnRet.res.id).some
           /\ IsActive(GetTransaction(txns, txnRet.res.id).v)
    /\ (txnRet.op = "commit" /\ Known(txnRet) /\ IsActive(txnRet.before[txnRet.id])) =>
           /\ txnRet.res.ok
           /\ GetTransaction(txns, txnRet.id).some
           /\ GetTransaction(txns, txnRet.id).v.status = "Committed"
           /\ ~IsActive(GetTransaction(txns, txnRet.id).v)
    /\ (txnRet.op = "abort" /\ Known(txnRet)) =>
           /\ txnRet.res.ok
           /\ GetTransaction(txns, txnRet.id).some
           /\ GetTransaction(txns, txnRet.id).v.status = "Aborted"
    /\ (txnRet.op \in {"commit", "abort"} /\ ~Known(txnRet)) =>
           /\ ~txnRet.res.ok /\ txnRet.res.err = "NotFound"
           /\ txns = txnRet.before

C22_Witness ==
    /\ txnRet.op = "commit" /\ Known(txnRet) /\ IsActive(txnRet.before[txnRet.id])
    /\ txnRet.res.ok
    /\ txns[txnRet.id].status = "Committed"
    /\ \E id \in DOMAIN txns : txns[id].status = "Aborted"
    /\ \E id \in DOMAIN txns : IsActive(txns[id])
(***************************************************************************)
(* C23: a newly created RaftNode is a Follower in term 0, and propose on   *)
(* a node that is not Leader returns Err(NotLeader) and appends nothing    *)
(* to the log.                                                             *)
(***************************************************************************)
C23_ProposeNotLeader ==
    /\ raftOps = 0 =>
           /\ raft.state = "Follower" /\ raft.current_term = 0
           /\ ~IsLeader(raft) /\ raft.log = <<>>
    /\ (raftRet.op = "propose" /\ ~IsLeader(raft)) =>
           /\ ~raftRet.res.ok /\ raftRet.res.err = "NotLeader"
           /\ raft.log = raftRet.before

C23_Witness ==
    /\ raftRet.op = "propose" /\ ~IsLeader(raft)
    /\ raftOps = 2
    /\ raftRet.data # <<>>
    /\ Len(raft.config.peers) = 2
    /\ raftRet.res.err = "NotLeader"
    /\ raft.log = <<>>
(***************************************************************************)
(* C26: recover stops at the first record whose length header declares     *)
(* more bytes than remain in the file: every well-formed record before it  *)
(* is returned, nothing after it is returned, and recover returns Ok.      *)
(***************************************************************************)
FirstOverrun ==
    CHOOSE i \in 1..Len(walFile) :
        walFile[i].overrun /\ \A j \in 1..(i - 1) : ~walFile[j].overrun

C26_RecoverStopsAtTruncation ==
    (recovered.done /\ ~NoOverrun) =>
        /\ recovered.ok
        /\ recovered.entries = Undamaged(SubSeq(walFile, 1, FirstOverrun - 1), damaged, 1)

C26_Witness ==
    /\ recovered.done /\ recovered.ok
    /\ Len(walFile) = 3
    /\ damaged = {2}
    /\ walFile[2].overrun
    /\ recovered.entries = <<walFile[1].data>>
(***************************************************************************)
(* C24: get consults the active memtable, then the immutable memtables     *)
(* newest first, then the levels from 0 upward with the newest file first  *)
(* inside a level, and the first tier that holds the key decides: a live   *)
(* value is returned as Some(v), a tombstone as None, and no older tier    *)
(* is consulted.  Stated for the get that runs alone (every state) and     *)
(* for every lock section of the get that runs among other callers         *)
(* (every step).                                                           *)
(***************************************************************************)
Reverse(seq) == [i \in 1..Len(seq) |-> seq[Len(seq) + 1 - i]]

RECURSIVE LevelOrder(_, _)
LevelOrder(lv, l) ==
    IF l > Len(lv) THEN <<>> ELSE Reverse(lv[l]) \o LevelOrder(lv, l + 1)

\* What each tier answers for the key, in the order of consultation.
ImmutableAnswers(key) ==
    [i \in 1..Len(immutable_memtables) |->
        [ok |-> TRUE, r |-> MemTableGet(Reverse(immutable_memtables)[i], key)]]

LevelAnswers(key) ==
    [i \in 1..Len(LevelOrder(levels, 1)) |-> SSTableGet(LevelOrder(levels, 1)[i], key)]

TierAnswers(key) ==
    <<[ok |-> TRUE, r |-> MemTableGet(active_memtable, key)]>>
        \o ImmutableAnswers(key) \o LevelAnswers(key)

Decides(answer) == ~answer.ok \/ answer.r.some

\* The answer of the first tier that holds the key (or fails): [ok, v].
FirstHit(answers) ==
    IF \E i \in 1..Len(answers) : Decides(answers[i])
    THEN LET i == CHOOSE n \in 1..Len(answers) :
                      Decides(answers[n]) /\ \A j \in 1..(n - 1) : ~Decides(answers[j])
         IN  IF answers[i].ok THEN [ok |-> TRUE, v |-> answers[i].r.v]
             ELSE [ok |-> FALSE, v |-> None]
    ELSE [ok |-> TRUE, v |-> None]

GetAloneFirstHit == \A k \in Keys : up => LsmGet(k) = FirstHit(TierAnswers(k))

GetOut(c) == [ok |-> c.res = "Ok", v |-> c.out]

GetStepFirstHit ==
    /\ (ret'.kind = "get" /\ nops'.get # nops.get) =>
           /\ Decides([ok |-> TRUE, r |-> MemTableGet(active_memtable, ret'.key)])
           /\ GetOut(ret') = [ok |-> TRUE, v |-> MemTableGet(active_memtable, ret'.key).v]
    /\ \A p \in Procs :
          /\ (pc[p] = "idle" /\ pc'[p] = "get_imm") =>
                 ~MemTableGet(active_memtable, call'[p].key).some
          /\ (pc[p] = "get_imm" /\ pc'[p] = "idle" /\ up') =>
                 /\ \E i \in 1..Len(immutable_memtables) :
                        Decides(ImmutableAnswers(call[p].key)[i])
                 /\ ret'.kind = "get" /\ ret'.key = call[p].key
                 /\ GetOut(ret') = FirstHit(ImmutableAnswers(call[p].key))
          /\ (pc[p] = "get_imm" /\ pc'[p] = "get_lvl") =>
                 \A i \in 1..Len(immutable_memtables) :
                     ~Decides(ImmutableAnswers(call[p].key)[i])
          /\ (pc[p] = "get_lvl" /\ pc'[p] = "idle" /\ up') =>
                 /\ ret'.kind = "get" /\ ret'.key = call[p].key
                 /\ GetOut(ret') = FirstHit(LevelAnswers(call[p].key))

C24_GetFirstTierDecides == [](GetAloneFirstHit) /\ [][GetStepFirstHit]_vars

C24_Witness ==
    /\ ret.kind = "get" /\ ret.res = "Ok" /\ ret.out = None
    /\ MemTableGet(active_memtable, ret.key) = Some(None)
    /\ Len(immutable_memtables) = 1
    /\ MemTableGet(immutable_memtables[1], ret.key).some
    /\ MemTableGet(immutable_memtables[1], ret.key).v.some
(***************************************************************************)
(* C25: after open the sequence counter is one more than the highest       *)
(* sequence number among the recovered WAL records (0 when the WAL is      *)
(* empty), and every put/delete that starts afterwards gets a sequence     *)
(* number strictly greater than that of every record in the WAL.           *)
(***************************************************************************)
RecordSequences(file) == {file[i].data.sequence : i \in 1..Len(file)}

OneAfterHighest(sequences) ==
    IF sequences = {} THEN 0
    ELSE 1 + (CHOOSE n \in sequences : \A j \in sequences : j <= n)

OpenRestoresCounter ==
    (~up /\ up') =>
        sequence_number' = OneAfterHighest({e.sequence :
                                e \in {WalRecover(walFile).entries[i] :
                                          i \in 1..Len(WalRecover(walFile).entries)}})

StartAboveRecovered ==
    \A p \in Procs :
        (pc[p] = "idle" /\ pc'[p] = "wal") =>
            \A n \in RecordSequences(walFile) : call'[p].seq > n

C25_OpenRestoresSequence == [][OpenRestoresCounter /\ StartAboveRecovered]_vars

C25_Witness ==
    /\ up /\ crashes = 1
    /\ Len(walFile) = 2
    /\ walFile[1].data.sequence = 1 /\ walFile[2].data.sequence = 0
    /\ sequence_number = 2
    /\ \A p \in Procs : pc[p] = "idle"
(***************************************************************************)
(* C27: SSTables reach levels[0] in the order in which their memtables     *)
(* were frozen, so that the newest Level-0 file holding a key holds the    *)
(* most recently written entry of the key: once the memtable holding the   *)
(* latest write of k has been frozen and its flush has ended, Level 0      *)
(* read newest file first answers with that write.                         *)
(***************************************************************************)
InNoMemtable(k) == \A m \in Memtables : k \notin DOMAIN m.data

C27_Level0NewestHoldsLatest ==
    \A k \in Keys :
        (Quiescent /\ crashes = 0 /\ last[k].status = "Ok" /\ ~racy[k] /\ InNoMemtable(k))
            => /\ levels[1] # <<>>
               /\ GetLevel(levels[1], Len(levels[1]), k)
                      = [ok |-> TRUE, r |-> Some(last[k].value)]

(***************************************************************************)
(* C28: every non-empty memtable frozen at rotation is consumed by exactly *)
(* one flush into exactly one Level-0 SSTable: in every step of a running  *)
(* engine the frozen memtables still held plus the SSTables of level 0     *)
(* grow by one when a memtable is frozen and do not change otherwise.      *)
(***************************************************************************)
RECURSIVE HeldBy(_)
HeldBy(procs) ==
    IF procs = {} THEN 0
    ELSE LET p == CHOOSE q \in procs : TRUE
         IN  (IF pc[p] = "push" THEN 1 ELSE 0) + Len(call[p].batch) + HeldBy(procs \ {p})

\* Frozen memtables not yet flushed: queued, or in a rotating caller's hands.
Frozen == Len(immutable_memtables) + HeldBy(Procs)

Freezes == \E p \in Procs : pc[p] = "swap" /\ pc'[p] = "push"

FrozenConsumedOnce ==
    (up /\ up') =>
        Frozen' + Len(levels'[1])
            = Frozen + Len(levels[1]) + (IF Freezes THEN 1 ELSE 0)

C28_FrozenConsumedOnce == [][FrozenConsumedOnce]_vars

(***************************************************************************)
(* C29: a flush changes the level array only by appending one SSTable to   *)
(* levels[0]: levels 1..max_levels stay empty and no SSTable is removed,   *)
(* replaced or reordered, whatever the length of levels[0].                *)
(***************************************************************************)
AppendsToLevel0 ==
    \E sst \in {levels'[1][i] : i \in 1..Len(levels'[1])} :
        levels' = [levels EXCEPT ![1] = Append(@, sst)]

LevelsOnlyAppended ==
    (up /\ up') => (levels' = levels \/ AppendsToLevel0)

UpperLevelsEmpty == \A l \in 2..max_levels : levels[l] = <<>>

BlockCacheSize(c) == c.current_size

C31_CacheSizeIsSum ==
    /\ BlockCacheSize(blockCache) = CostHeld(blockCache)
    /\ BlockCacheSize(blockCache) >= 0
    /\ ~cacheRet.panicked

(***************************************************************************)
(* C39: a put that is rejected because its entry alone exceeds the         *)
(* capacity leaves every other cached entry, and the recency order of      *)
(* those entries, unchanged.                                               *)
(***************************************************************************)
Others(order, key) == SelectSeq(order, LAMBDA k : k # key)

C39_RejectedPutChangesNothing ==
    (cacheRet.op = "put" /\ Len(cacheRet.key) + Len(cacheRet.value) > blockCache.capacity)
        => /\ \A k \in (DOMAIN cacheRet.before.data) \ {cacheRet.key} :
                  /\ k \in DOMAIN blockCache.data
                  /\ blockCache.data[k] = cacheRet.before.data[k]
           /\ Others(blockCache.access_order, cacheRet.key)
                  = Others(cacheRet.before.access_order, cacheRet.key)

(***************************************************************************)
(* C40: transaction status is terminal once it leaves Active: a commit or  *)
(* abort call on a Committed or Aborted transaction leaves its status as   *)
(* it was.                                                                 *)
(***************************************************************************)
C40_StatusIsTerminal ==
    (txnRet.op \in {"commit", "abort"} /\ Known(txnRet)
        /\ ~IsActive(txnRet.before[txnRet.id]))
        => /\ txnRet.id \in DOMAIN txns
           /\ txns[txnRet.id].status = txnRet.before[txnRet.id].status
(***************************************************************************)
(* C33: under concurrent put/delete callers WAL records are written one    *)
(* whole record at a time and appear in the log in strictly increasing     *)
(* sequence-number order.                                                  *)
(***************************************************************************)
C33_WalInSequenceOrder ==
    /\ \A i \in 1..Len(walFile) :
           walFile[i].decodes /\ ~walFile[i].overrun
               /\ walFile[i].crc = Crc(Serialize(walFile[i].data))
    /\ \A i, j \in 1..Len(walFile) :
           i < j => walFile[i].data.sequence < walFile[j].data.sequence

(***************************************************************************)
(* C35: no visibility gap: in every state of a running engine, each key    *)
(* whose latest mutation is a put that returned Ok is held by a tier that  *)
(* get consults: the active memtable, the immutable queue or an SSTable    *)
(* of a level.                                                             *)
(***************************************************************************)
Readable(k) == \E i \in 1..Len(TierAnswers(k)) : Decides(TierAnswers(k)[i])

C35_NoVisibilityGap ==
    \A k \in Keys :
        (up /\ crashes = 0 /\ Settled(k, "put")) => Readable(k)

(***************************************************************************)
(* C36: state is preserved on a flush error: when the build of an SSTable  *)
(* fails, the memtable being flushed and every other memtable taken from   *)
(* the queue remain readable: every key they hold is still held by a tier  *)
(* that get consults.                                                      *)
(***************************************************************************)
BatchKeys(p) == UNION {DOMAIN call[p].batch[i].data : i \in 1..Len(call[p].batch)}

FlushErrorKeepsBatch ==
    \A p \in Procs :
        (pc[p] = "build" /\ pc'[p] = "idle" /\ up' /\ ret'.res = "Err")
            => \A k \in BatchKeys(p) : Readable(k)'

C36_FlushErrorPreservesState == [][FlushErrorKeepsBatch]_vars

(***************************************************************************)
(* C37: SSTable file numbers are unique over the lifetime of a data        *)
(* directory: no flush, the first one after a reopen included, creates its *)
(* file at a path an earlier flush already wrote.                          *)
(***************************************************************************)
Builds(p) == pc[p] = "build" /\ (pc'[p] # pc[p] \/ call'[p] # call[p])

FreshFileNumber ==
    \A p \in Procs : Builds(p) => sequence_number \notin DOMAIN sstFiles

C37_FileNumbersUnique == [][FreshFileNumber]_vars

(***************************************************************************)
(* C38: for concurrent put/delete callers on the same key and no flush,    *)
(* the order of their records in the WAL is the order in which they were   *)
(* applied to the active memtable, so a crash and reopen yields for every  *)
(* key the answer get gave before the crash: replaying the WAL gives the   *)
(* active memtable's answer.                                               *)
(***************************************************************************)
Reopened == Replay(WalRecover(walFile).entries, MemTableNew, 0).memtable

C38_WalOrderIsMemtableOrder ==
    (Quiescent /\ crashes = 0 /\ NoFlushEver) =>
        \A k \in Keys : MemTableGet(Reopened, k) = MemTableGet(active_memtable, k)
(***************************************************************************)
(* C32: rotation holds the active memtable's write lock only for the swap; *)
(* while a caller is past the swap of its rotation (pushing, taking the    *)
(* queue, building the SSTable) it does not hold that lock, and another    *)
(* caller's write to the active memtable or its get can go ahead.          *)
(***************************************************************************)
Flushing(p) == pc[p] \in {"push", "take", "build"}

Continue(p) ==
    \/ WalStep(p) \/ MemStep(p)
    \/ RotSwap(p) \/ RotPush(p) \/ FlushTake(p) \/ FlushBuild(p)
    \/ GetImm(p) \/ GetLvl(p)

\* Calls issued under the fair specification.
MaxFairMutations == 1
MaxFairFlushes == 1

NextFair ==
    \/ \E p \in Procs : nops.mutation < MaxFairMutations /\ PutStart(p)
    \/ \E p \in Procs : nops.mutation < MaxFairMutations /\ DeleteStart(p)
    \/ \E p \in Procs : nops.flush < MaxFairFlushes /\ FlushStart(p)
    \/ \E p \in Procs : GetStart(p)
    \/ \E p \in Procs : WalStep(p)
    \/ \E p \in Procs : MemStep(p)
    \/ \E p \in Procs : RotSwap(p)
    \/ \E p \in Procs : RotPush(p)
    \/ \E p \in Procs : FlushTake(p)
    \/ \E p \in Procs : FlushBuild(p)
    \/ \E p \in Procs : GetImm(p)
    \/ \E p \in Procs : GetLvl(p)

SpecFair == Init /\ [][NextFair]_vars /\ \A p \in Procs : WF_vars(Continue(p))

====
